---- MODULE Spec2Model ----
(***************************************************************************)
(* Start-up coordination of the Odoo container entry-point.                *)
(*                                                                         *)
(* Several replicas run entrypoint.main() against one cache service        *)
(* (Redis), one database and one persistent volume holding the marker      *)
(* files /etc/odoo/.destroy, /etc/odoo/.scaffolded and /etc/odoo/.timestamp.*)
(* The model follows src/entrypoint/entrypoint.py and                      *)
(* src/tools/src/lock_handler.py at the granularity of one step per        *)
(* externally visible operation: a cache command, a marker file operation, *)
(* a lock-file operation, a subprocess run.                                *)
(***************************************************************************)
EXTENDS Integers, FiniteSets, Sequences, TLC

(***************************************************************************)
(* Bounds of the model.                                                    *)
(***************************************************************************)

\* The replicas that boot concurrently (one container each).
Replicas == {"r1", "r2"}

\* Clock ticks spanned by the expiry time of a lock key (LOCK_EXPIRE_TIME,
\* 3600 s in lock_handler.py:27): a key set at tick t is gone at t + ExpireTicks.
ExpireTicks == 2

\* Polls made by wait_for_lock before it times out (max_attempts, 1080 by
\* default in lock_handler.py:146, run here with a smaller budget).
MaxWaitAttempts == 2

\* Exclusive-create attempts of the bad-descriptor fallback of _file_lock
\* (max_retries, 100 in entrypoint.py:495, run here with a smaller budget).
MaxCreateRetries == 2

\* Passes of the upgrade loop: range(1, 4) in entrypoint.py:1829.
UpgradePasses == 3

NoOne == "none"

LockNames == {"initlead", "upgradelead"}

\* The files guarded by _file_lock: SCAFFOLDED_SEMAPHORE, ADDON_TIMESTAMP_FILE
\* and /etc/odoo/odoo.conf.
Paths == {"scaffold", "timestamp", "conf"}

\* Modules that collect_addons may resolve for an upgrade.
Modules == {"m1", "m2"}

\* The names of the add-on directories a scan may find, the longest scan
\* (manifests found, a name possibly more than once) and the longest
\* `depends` list of a manifest.
AddonNames == {"a", "b", "c"}
MaxScan == 3
MaxDepends == 2

\* Content of the revision marker: no file, a previous revision, the
\* revision this image declares.
NoFile == "nofile"
OldRevision == "T1"
NewRevision == "T2"

\* How the filesystem of /etc/odoo answers _file_lock:
\*   flock     open and flock(2) succeed
\*   tmp       the sidecar cannot be created, the one under tempdir can
\*   enotsup   flock(2) fails with ENOTSUP / EOPNOTSUPP
\*   ebadf     flock(2) fails with EBADF / EINVAL
\*   eother    flock(2) fails with another errno (ENOLCK, EIO: an OSError that
\*             no caller catches)
\*   nocreate  no lock file can be created anywhere
FsModes == {"flock", "tmp", "enotsup", "ebadf", "eother", "nocreate"}

VARIABLES
    pc,            \* replica -> position in main() and its callees
    exitCode,      \* replica -> exit status (-1 while running or handed off)
    loc,           \* replica -> locals of the running function
    fl,            \* replica -> locals of the running _file_lock
    key,           \* lock name -> the cache key: present, remaining ttl, creator
    destroyMarker, \* /etc/odoo/.destroy exists
    scaffolded,    \* /etc/odoo/.scaffolded exists
    timestamp,     \* content of /etc/odoo/.timestamp (NoFile when absent)
    env,           \* environment and content of the image
    fsMode,        \* how the filesystem answers _file_lock
    lockFile,      \* path -> the sidecar / sentinel file <path>.lock exists
    flockOwner,    \* path -> holder of the advisory lock on the sidecar
    installed,     \* replica -> it has run the Executor for an install pass
    releases,      \* replica -> lock name -> release_lock calls made
    unreach,       \* replica -> its last acquire_lock, or a poll of
                   \* wait_for_lock since, met an unreachable cache
    ttlElapsed,    \* some lock key has been removed by expiry
    discovered,    \* the manifests that _iter_addons finds, the names the
                   \* blocklist matches and the languages argument
    ordered,       \* what a call of collect_addons has returned or raised
    config         \* /etc/odoo/odoo.conf, the holders of a shared flock on
                   \* odoo.conf.lock and the odoo-config processes at work

vars == <<pc, exitCode, loc, fl, key, destroyMarker, scaffolded, timestamp,
          env, fsMode, lockFile, flockOwner, installed, releases, unreach,
          ttlElapsed, discovered, ordered, config>>

markerVars == <<destroyMarker, scaffolded, timestamp>>
envVars == <<env, fsMode, discovered, ordered, config>>
flShared == <<lockFile, flockOwner>>
ghostVars == <<installed, releases, unreach>>

\* Locals at the entry of a function: _held_lock = False, the first attempt
\* of the retry loop, no poll made, no module resolved.  Besides the
\* variables of the code the record keeps what the call has done so far:
\*   destroys   destroy_instance calls made by the retry loop
\*   werr       a guarded marker write of the call met an error
\*   calls      module -> `odoo --update` runs made for it
\*   succeeded  modules whose `odoo --update` run has succeeded
\*   path       the return statement of upgrade_modules the call is heading to
\*   wiped      main() has just come back from its destroy_instance call
NoLocals ==
    [held |-> FALSE, attempt |-> 1, destroyRet |-> "init_check",
     waitAttempt |-> 0, remaining |-> {}, failed |-> {}, todo |-> {},
     upass |-> 1, destroys |-> 0, werr |-> FALSE,
     calls |-> [m \in Modules |-> 0], succeeded |-> {}, path |-> "none",
     wiped |-> FALSE, tiersOk |-> {}, waits |-> {}]

\* _file_lock not running.  Besides the variables of the code (the resource
\* held, the loop index `retry`, the error of the body) the record keeps what
\* the call has done so far:
\*   bodies     executions of the body of the with-block
\*   attempts   os.open(O_CREAT | O_EXCL) calls of the bounded loop
\*   sleeps     time.sleep calls of the bounded loop
FlIdle ==
    [pc |-> "idle", kind |-> "none", retry |-> 0, err |-> "none",
     bodies |-> 0, attempts |-> 0, sleeps |-> 0]

(***************************************************************************)
(* lock_handler.py: the distributed lock.                                  *)
(***************************************************************************)

AbsentKey == [present |-> FALSE, ttl |-> 0, owner |-> NoOne]

\* acquire_lock without nx=True: the key is overwritten whoever holds it.
acquire_lock_overwrite(k, r, up) ==
    IF up
    THEN [result |-> TRUE,
          key |-> [present |-> TRUE, ttl |-> ExpireTicks, owner |-> r]]
    ELSE [result |-> FALSE, key |-> k]

\* client.set(name, "locked", nx=True, ex=expire_time); `result is True`; any
\* exception (the cache is unreachable: up = FALSE) is printed and answered
\* with False.
acquire_lock(k, r, up) ==
    IF up /\ ~k.present
    THEN [result |-> TRUE,
          key |-> [present |-> TRUE, ttl |-> ExpireTicks, owner |-> r]]
    ELSE [result |-> FALSE, key |-> k]

\* client.delete(name); an exception is printed and swallowed.
release_lock(k, up) == IF up THEN AbsentKey ELSE k

\* wait_for_lock making one poll more than max_attempts.
wait_for_lock_one_more(k, n, up) ==
    IF ~up THEN "raise"
    ELSE IF ~k.present THEN "exit0"
    ELSE IF n + 1 > MaxWaitAttempts THEN "exit1"
    ELSE "loop"

\* One iteration of the loop of wait_for_lock, `n` polls having found the
\* key: "raise" when client.exists raises, "exit0" when the key is absent,
\* "exit1" when the budget is used up, "loop" otherwise.  No outcome returns
\* to the caller.
wait_for_lock(k, n, up) ==
    IF ~up THEN "raise"
    ELSE IF ~k.present THEN "exit0"
    ELSE IF n + 1 >= MaxWaitAttempts THEN "exit1"
    ELSE "loop"

(***************************************************************************)
(* entrypoint.py: update_needed.                                           *)
(***************************************************************************)

\* update_needed that never reads the revision marker: an upgrade is due
\* whenever a target is declared.
update_needed_ignoring_marker(e, ts) ==
    e.target # ""

\* No ODOO_ADDONS_TIMESTAMP: False; no marker file: True; otherwise the
\* marker differs from the declared target.
update_needed(e, ts) ==
    IF e.target = "" THEN FALSE
    ELSE IF ts = NoFile THEN TRUE
    ELSE e.target # ts

(***************************************************************************)
(* entrypoint.py: collect_addons, _topological_sort.                       *)
(***************************************************************************)

\* L10N_RE = ^l10n_([a-z]{2})(?:_.+)?$ with re.IGNORECASE, applied to the
\* add-on names of the model: group(1) of the match, or NoMatch.  The names
\* "a", "b", "c", "base" do not start with l10n_; in "l10n_multilang" the
\* two letters are followed by neither "_" nor the end of the name.
NoMatch == "no_match"

L10N_RE(name) ==
    CASE name = "l10n_au" -> "au"
      [] name = "L10N_DE_reports" -> "DE"
      [] OTHER -> NoMatch

\* str.lower() on the country codes of the model.
Lower(cc) ==
    CASE cc = "AU" -> "au"
      [] cc = "DE" -> "de"
      [] OTHER -> cc

\* The `languages` argument: None, or a sequence of language codes.  A code
\* is the sequence of its parts between underscores (at most two in the
\* model), so that "_" in lang is Len(lang) > 1 and lang.split("_", 1)[1]
\* is lang[2].
NoLanguages == [given |-> FALSE, codes |-> <<>>]
Languages(codes) == [given |-> TRUE, codes |-> codes]

\* allowed_cc: empty, and filled from the codes only when languages is not
\* None.
allowed_cc(languages) ==
    IF ~languages.given THEN {}
    ELSE {Lower(languages.codes[i][2]) :
             i \in {k \in 1..Len(languages.codes) : Len(languages.codes[k]) > 1}}

\* _filter_localisation(addon, allowed_cc)
filter_localisation(name, allowed) ==
    IF L10N_RE(name) = NoMatch THEN TRUE
    ELSE Lower(L10N_RE(name)) \in allowed

\* is_blocked_addon(name, *patterns): bl is the set of the names that some
\* pattern of the blocklist matches.
is_blocked_addon(name, bl) == name \in bl

\* _iter_addons over the manifests found, in scan order.  kind "dict": the
\* file parses to a dict whose "depends" is a sequence; "unparsable":
\* read_text or ast.literal_eval raises inside the try, the manifest is
\* skipped; "not_a_dict": the literal is a list, a string, a number or None
\* and data.get raises AttributeError outside the try; "bad_depends": the
\* dict's "depends" is not iterable and tuple() raises TypeError.
ManifestKinds == {"dict", "unparsable", "not_a_dict", "bad_depends"}

iter_addons(sc) ==
    LET bad == {i \in 1..Len(sc) : sc[i].kind \in {"not_a_dict", "bad_depends"}}
        first == CHOOSE i \in bad : \A j \in bad : i <= j
    IN  [error |-> IF bad = {} THEN "none"
                   ELSE IF sc[first].kind = "not_a_dict" THEN "AttributeError"
                   ELSE "TypeError",
         addons |-> SelectSeq(sc, LAMBDA m : m.kind = "dict")]

\* addons[name] = addon in place of addons.setdefault(name, addon): the
\* last occurrence of a name gives its dependency list.
AddonsDict_last_wins(sc, idx) ==
    LET last(n) == CHOOSE i \in 1..Len(sc) :
                      /\ sc[i].name = n
                      /\ \A j \in (i + 1)..Len(sc) : sc[j].name # n
        F[i \in 0..Len(sc)] ==
            IF i = 0 THEN <<>>
            ELSE IF i \in idx THEN Append(F[i - 1], sc[i].name)
            ELSE F[i - 1]
    IN  [order |-> F[Len(sc)],
         depends |-> [n \in {sc[i].name : i \in idx} |-> sc[last(n)].depends]]

\* The blocklist test made only on a name not seen before, so that a
\* blocked name is taken from a later root.
KeptAt_later_root_unblocked(sc, languages, bl, i) ==
    /\ filter_localisation(sc[i].name, allowed_cc(languages))
    /\ \/ /\ ~is_blocked_addon(sc[i].name, bl)
          /\ \A j \in 1..(i - 1) : sc[j].name # sc[i].name
       \/ /\ is_blocked_addon(sc[i].name, bl)
          /\ \E j \in 1..(i - 1) : sc[j].name = sc[i].name
          /\ \A j \in (i + 1)..Len(sc) : sc[j].name # sc[i].name

\* The `addons` dict of collect_addons: the add-ons yielded are walked in
\* order, a name rejected by is_blocked_addon or _filter_localisation is
\* skipped, and addons.setdefault keeps the first occurrence of a name.
\* `order` is the insertion order of the keys, `depends` the tuple of each
\* kept add-on.
KeptAt(sc, languages, bl, i) ==
    /\ ~is_blocked_addon(sc[i].name, bl)
    /\ filter_localisation(sc[i].name, allowed_cc(languages))
    /\ \A j \in 1..(i - 1) : sc[j].name # sc[i].name

AddonsDict(sc, idx) ==
    LET F[i \in 0..Len(sc)] ==
            IF i = 0 THEN <<>>
            ELSE IF i \in idx THEN Append(F[i - 1], sc[i].name)
            ELSE F[i - 1]
    IN  [order |-> F[Len(sc)],
         depends |-> [n \in {sc[i].name : i \in idx} |->
                         sc[CHOOSE i \in idx : sc[i].name = n].depends]]

\* No call made yet; a call that returned the list `out`; a call that raised
\* ValueError("dependency cycle detected at ...") and returned nothing.
\* `error` names the exception of a call that raised.
NotRun == [ran |-> FALSE, raised |-> FALSE, out |-> <<>>, error |-> "none"]
Returned(out) == [ran |-> TRUE, raised |-> FALSE, out |-> out, error |-> "none"]
RaisedError(e) == [ran |-> TRUE, raised |-> TRUE, out |-> <<>>, error |-> e]
Raised == RaisedError("ValueError")

\* visit(n) of _topological_sort, on the state st = (visited, out, raised):
\* visited maps a name to 0 (temporary mark) or 1 (permanent mark), -1
\* standing for a name that is no key of the dict; `raised` is the ValueError
\* on its way up the call stack.
RECURSIVE visit(_, _, _), visit_depends(_, _, _, _)

visit(ad, st, n) ==
    IF st.raised \/ st.visited[n] = 1 THEN st
    ELSE IF st.visited[n] = 0 THEN [st EXCEPT !.raised = TRUE]
    ELSE LET marked == [st EXCEPT !.visited[n] = 0]
             done == visit_depends(ad, marked, ad.depends[n], 1)
         IN  IF done.raised THEN done
             ELSE [done EXCEPT !.visited[n] = 1, !.out = Append(@, n)]

\* for dep in addons[n].depends: if dep in addons: visit(dep)
visit_depends(ad, st, deps, i) ==
    IF st.raised \/ i > Len(deps) THEN st
    ELSE visit_depends(ad,
                       IF deps[i] \in DOMAIN ad.depends
                       THEN visit(ad, st, deps[i]) ELSE st,
                       deps, i + 1)

\* for name in addons: if visited.get(name) != 1: visit(name); return out
RECURSIVE visit_all(_, _, _)

visit_all(ad, st, i) ==
    IF st.raised \/ i > Len(ad.order) THEN st
    ELSE visit_all(ad,
                   IF st.visited[ad.order[i]] # 1
                   THEN visit(ad, st, ad.order[i]) ELSE st,
                   i + 1)

topological_sort(ad) ==
    LET st == visit_all(ad, [visited |-> [n \in DOMAIN ad.depends |-> -1],
                             out |-> <<>>, raised |-> FALSE], 1)
    IN  IF st.raised THEN Raised ELSE Returned(st.out)

\* The dict built by the loop of collect_addons over the add-ons yielded.
Kept(sc, languages, bl) ==
    AddonsDict(sc, {i \in 1..Len(sc) : KeptAt(sc, languages, bl, i)})

\* collect_addons returning the keys of the dict as they were inserted,
\* without sorting them.
collect_addons_unsorted(sc, languages, bl) ==
    LET it == iter_addons(sc)
        ad == Kept(it.addons, languages, bl) IN
    IF it.error # "none" THEN RaisedError(it.error)
    ELSE IF ad.order = <<>> THEN Returned(<<>>)
    ELSE IF topological_sort(ad).raised THEN Raised
    ELSE Returned(ad.order)

\* collect_addons catching the cycle error and returning the keys of the
\* dict instead.
collect_addons_swallows_cycle(sc, languages, bl) ==
    LET it == iter_addons(sc)
        ad == Kept(it.addons, languages, bl) IN
    IF it.error # "none" THEN RaisedError(it.error)
    ELSE IF ad.order = <<>> THEN Returned(<<>>)
    ELSE IF topological_sort(ad).raised THEN Returned(ad.order)
    ELSE topological_sort(ad)

\* for addon in _iter_addons(paths): ...; if not addons: return [];
\* ordered = _topological_sort(addons).  An exception of _iter_addons
\* leaves the loop and the call.
collect_addons(sc, languages, bl) ==
    LET it == iter_addons(sc)
        ad == Kept(it.addons, languages, bl) IN
    IF it.error # "none" THEN RaisedError(it.error)
    ELSE IF ad.order = <<>> THEN Returned(<<>>)
    ELSE topological_sort(ad)

(***************************************************************************)
(* odoo_config.py: read_config_lines, set_config, write_config_lines.      *)
(***************************************************************************)

\* The options of the configuration file that the model follows, and their
\* values; Unset stands for a key with no line in the file.
ConfKeys == {"db_host", "db_port"}
Unset == "unset"
OldValue == "old"
NewValues == {"new1", "new2"}

\* An odoo-config process that is not running.
ConfIdle == [pc |-> "idle", key |-> "none", value |-> "none",
             lines |-> [k \in ConfKeys |-> Unset]]

\* No odoo-config process at work on an empty configuration file.
NoConfig == [file |-> [k \in ConfKeys |-> Unset], readers |-> {},
             proc |-> [p \in Replicas |-> ConfIdle]]

\* The loop of set_config over the lines read: the line of the key is
\* replaced, or the key is added to its section; every other line is kept
\* as it was read.
set_config_lines(lines, k, v) == [lines EXCEPT ![k] = v]

(***************************************************************************)
(* Control flow helpers.                                                   *)
(***************************************************************************)

\* Continue at l with the locals v.
Move(r, l, v) ==
    /\ pc' = [pc EXCEPT ![r] = l]
    /\ loc' = [loc EXCEPT ![r] = v]
    /\ UNCHANGED exitCode

Goto(r, l) == Move(r, l, loc[r])

\* Return from initialise_instance / upgrade_modules into main().
Return(r, l) == Move(r, l, NoLocals)

\* sys.exit(c), or an exception reaching the handlers at the end of main():
\* SystemExit is re-raised unchanged, any other Exception becomes sys.exit(1).
Die(r, c) ==
    /\ pc' = [pc EXCEPT ![r] = "exited"]
    /\ exitCode' = [exitCode EXCEPT ![r] = c]
    /\ loc' = [loc EXCEPT ![r] = NoLocals]

Running(r) == pc[r] \notin {"ready", "exited"}

\* The positions inside initialise_instance and inside upgrade_modules
\* (destroy_instance belongs to its caller).
InitPcs ==
    {"init_acquire", "init_wait", "init_restore", "restore_touch",
     "restore_ts", "init_helpers", "init_core", "init_extra", "init_touch",
     "init_ts", "init_release"}

UpgPcs ==
    {"upg_acquire", "upg_wait", "upg_needed", "upg_collect", "upg_pass",
     "upg_post", "upg_empty_ts", "upg_ts", "upg_release"}

DestroyPcs == {"destroy_db", "destroy_unlink_destroy", "destroy_unlink_scaffolded"}

InInit(r) ==
    \/ pc[r] \in InitPcs
    \/ pc[r] \in DestroyPcs /\ loc[r].destroyRet # "init_check"

InUpgrade(r) == pc[r] \in UpgPcs

(***************************************************************************)
(* entrypoint.py: _file_lock, _guarded_touch, _guarded_write_text.         *)
(***************************************************************************)

\* The statements of main() and its callees that enter `with _file_lock(..)`.
FlCallers ==
    {"restore_touch", "restore_ts", "init_touch", "init_ts", "upg_empty_ts",
     "upg_ts", "housekeeping"}

\* The target path each of them passes.
FlTargetOf(l) ==
    CASE l \in {"restore_touch", "init_touch"} -> "scaffold"
      [] l \in {"restore_ts", "init_ts", "upg_empty_ts", "upg_ts"} -> "timestamp"
      [] OTHER -> "conf"

FlTarget(p) == FlTargetOf(pc[p])

\* lock_path.open("a+b"), with the fallback to tempfile.gettempdir() and the
\* final "proceed without lock".
file_lock_open(p) ==
    /\ pc[p] \in FlCallers
    /\ fl[p].pc = "idle"
    /\ IF fsMode = "nocreate"
       THEN /\ fl' = [fl EXCEPT ![p] = [FlIdle EXCEPT !.pc = "body", !.kind = "nolock"]]
            /\ UNCHANGED lockFile
       ELSE /\ fl' = [fl EXCEPT ![p] = [FlIdle EXCEPT !.pc = "flock"]]
            /\ lockFile' = IF fsMode = "tmp" THEN lockFile
                           ELSE [lockFile EXCEPT ![FlTarget(p)] = TRUE]
    /\ UNCHANGED <<pc, exitCode, loc, flockOwner, key, ttlElapsed, markerVars,
                   envVars, ghostVars>>

\* A flock dispatch that swallows an errno of another class and yields
\* without lock.
file_lock_flock_swallows(p) ==
    /\ fl[p].pc = "flock"
    /\ CASE fsMode = "flock" ->
              /\ flockOwner[FlTarget(p)] = NoOne
              /\ flockOwner' = [flockOwner EXCEPT ![FlTarget(p)] = p]
              /\ fl' = [fl EXCEPT ![p].pc = "body", ![p].kind = "flock"]
         [] fsMode = "tmp" ->
              /\ fl' = [fl EXCEPT ![p].pc = "body", ![p].kind = "tmpflock"]
              /\ UNCHANGED flockOwner
         [] fsMode = "enotsup" ->
              /\ fl' = [fl EXCEPT ![p].pc = "unlink"]
              /\ UNCHANGED flockOwner
         [] fsMode = "ebadf" ->
              /\ fl' = [fl EXCEPT ![p].pc = "create_bounded"]
              /\ UNCHANGED flockOwner
         [] OTHER ->
              /\ fl' = [fl EXCEPT ![p].pc = "body", ![p].kind = "nolock"]
              /\ UNCHANGED flockOwner
    /\ UNCHANGED <<pc, exitCode, loc, lockFile, key, ttlElapsed, markerVars,
                   envVars, ghostVars>>

\* fcntl.flock(lock_fd.fileno(), fcntl.LOCK_EX) and the dispatch on its errno.
\* The lock file under tempdir is private to the container of the replica, so
\* its advisory lock is always free.  An errno of another class is re-raised
\* and caught by no caller.
file_lock_flock(p) ==
    /\ fl[p].pc = "flock"
    /\ CASE fsMode = "flock" ->
              /\ flockOwner[FlTarget(p)] = NoOne
              /\ flockOwner' = [flockOwner EXCEPT ![FlTarget(p)] = p]
              /\ fl' = [fl EXCEPT ![p].pc = "body", ![p].kind = "flock"]
              /\ UNCHANGED <<pc, exitCode, loc>>
         [] fsMode = "tmp" ->
              /\ fl' = [fl EXCEPT ![p].pc = "body", ![p].kind = "tmpflock"]
              /\ UNCHANGED <<pc, exitCode, loc, flockOwner>>
         [] fsMode = "enotsup" ->
              /\ fl' = [fl EXCEPT ![p].pc = "unlink"]
              /\ UNCHANGED <<pc, exitCode, loc, flockOwner>>
         [] fsMode = "ebadf" ->
              /\ fl' = [fl EXCEPT ![p].pc = "create_bounded"]
              /\ UNCHANGED <<pc, exitCode, loc, flockOwner>>
         [] OTHER ->
              /\ fl' = [fl EXCEPT ![p] = FlIdle]
              /\ Die(p, 1)
              /\ UNCHANGED flockOwner
    /\ UNCHANGED <<lockFile, key, ttlElapsed, markerVars, envVars, ghostVars>>

\* The ENOTSUP branch without the removal of the placeholder.
file_lock_keep_placeholder(p) ==
    /\ fl[p].pc = "unlink"
    /\ fl' = [fl EXCEPT ![p].pc = "create"]
    /\ UNCHANGED <<pc, exitCode, loc, flShared, key, ttlElapsed, markerVars,
                   envVars, ghostVars>>

\* ENOTSUP: lock_fd.close(); lock_path.unlink(missing_ok=True).
file_lock_unlink_placeholder(p) ==
    /\ fl[p].pc = "unlink"
    /\ lockFile' = [lockFile EXCEPT ![FlTarget(p)] = FALSE]
    /\ fl' = [fl EXCEPT ![p].pc = "create"]
    /\ UNCHANGED <<pc, exitCode, loc, flockOwner, key, ttlElapsed, markerVars,
                   envVars, ghostVars>>

\* ENOTSUP: while True: os.open(O_CREAT | O_EXCL | O_RDWR), sleep on
\* FileExistsError.
file_lock_create(p) ==
    /\ fl[p].pc = "create"
    /\ IF ~lockFile[FlTarget(p)]
       THEN /\ lockFile' = [lockFile EXCEPT ![FlTarget(p)] = TRUE]
            /\ fl' = [fl EXCEPT ![p].pc = "body", ![p].kind = "sentinel"]
       ELSE UNCHANGED <<lockFile, fl>>
    /\ UNCHANGED <<pc, exitCode, loc, flockOwner, key, ttlElapsed, markerVars,
                   envVars, ghostVars>>

\* The bounded loop giving up one attempt late.
file_lock_create_one_more(p) ==
    /\ fl[p].pc = "create_bounded"
    /\ IF ~lockFile[FlTarget(p)]
       THEN /\ lockFile' = [lockFile EXCEPT ![FlTarget(p)] = TRUE]
            /\ fl' = [fl EXCEPT ![p].pc = "body", ![p].kind = "sentinel",
                                ![p].attempts = @ + 1]
       ELSE IF fl[p].retry = MaxCreateRetries
       THEN /\ fl' = [fl EXCEPT ![p].pc = "body", ![p].kind = "nolock",
                                ![p].attempts = @ + 1]
            /\ UNCHANGED lockFile
       ELSE /\ fl' = [fl EXCEPT ![p].retry = @ + 1, ![p].attempts = @ + 1,
                                ![p].sleeps = @ + 1]
            /\ UNCHANGED lockFile
    /\ UNCHANGED <<pc, exitCode, loc, flockOwner, key, ttlElapsed, markerVars,
                   envVars, ghostVars>>

\* EBADF / EINVAL: for retry in range(max_retries): os.open(O_CREAT | O_EXCL);
\* on the last FileExistsError proceed without lock.
file_lock_create_bounded(p) ==
    /\ fl[p].pc = "create_bounded"
    /\ IF ~lockFile[FlTarget(p)]
       THEN /\ lockFile' = [lockFile EXCEPT ![FlTarget(p)] = TRUE]
            /\ fl' = [fl EXCEPT ![p].pc = "body", ![p].kind = "sentinel",
                                ![p].attempts = @ + 1]
       ELSE IF fl[p].retry = MaxCreateRetries - 1
       THEN /\ fl' = [fl EXCEPT ![p].pc = "body", ![p].kind = "nolock",
                                ![p].attempts = @ + 1]
            /\ UNCHANGED lockFile
       ELSE /\ fl' = [fl EXCEPT ![p].retry = @ + 1, ![p].attempts = @ + 1,
                                ![p].sleeps = @ + 1]
            /\ UNCHANGED lockFile
    /\ UNCHANGED <<pc, exitCode, loc, flockOwner, key, ttlElapsed, markerVars,
                   envVars, ghostVars>>

\* The errors the body of a guarded write can meet: where the lock file
\* could be created beside the target the directory is writable; where it
\* could not (tmp, nocreate) the write may fail with PermissionError.  An
\* odoo-config run of _runtime_housekeeping_impl that gets its own
\* exclusive flock on /etc/odoo/odoo.conf.lock may still fail (check=True);
\* where the parent could not flock that file the helper cannot either,
\* ensure_config_file_exists catches the OSError and exits with status 1.
BodyErrors(l) ==
    IF l = "housekeeping"
    THEN (IF fsMode = "flock" THEN {"none", "other"} ELSE {"other"})
    ELSE IF fsMode \in {"tmp", "nocreate"} THEN {"none", "perm"}
    ELSE {"none"}

\* The body of a guarded write that writes nothing.
file_lock_body_writes_nothing(p) ==
    /\ fl[p].pc = "body"
    /\ fl' = [fl EXCEPT ![p].pc = "exit", ![p].bodies = @ + 1]
    /\ UNCHANGED <<pc, exitCode, loc, flShared, key, ttlElapsed, markerVars,
                   envVars, ghostVars>>

\* The body under the lock: path.touch(exist_ok=True) of _guarded_touch,
\* path.write_text(data) of _guarded_write_text.
file_lock_body(p) ==
    /\ fl[p].pc = "body"
    /\ pc[p] # "housekeeping"
    /\ \E e \in BodyErrors(pc[p]) :
          /\ fl' = [fl EXCEPT ![p].pc = "exit", ![p].err = e,
                              ![p].bodies = @ + 1]
          /\ scaffolded' = IF e = "none" /\ FlTarget(p) = "scaffold"
                           THEN TRUE ELSE scaffolded
          /\ timestamp' = IF e = "none" /\ FlTarget(p) = "timestamp"
                          THEN env.target ELSE timestamp
    /\ UNCHANGED <<pc, exitCode, loc, flShared, key, ttlElapsed, destroyMarker,
                   envVars, ghostVars>>

\* The body of runtime_housekeeping under the lock of odoo.conf, the first
\* _call of _runtime_housekeeping_impl: subprocess.run raises
\* FileNotFoundError when odoo-config is not installed and the routine
\* returns; otherwise the helper process is started and the parent waits
\* for it inside the with-block.
runtime_housekeeping_call(p) ==
    /\ fl[p].pc = "body"
    /\ pc[p] = "housekeeping"
    /\ \/ fl' = [fl EXCEPT ![p].pc = "exit", ![p].bodies = @ + 1]
       \/ fl' = [fl EXCEPT ![p].pc = "helper", ![p].bodies = @ + 1]
    /\ UNCHANGED <<pc, exitCode, loc, flShared, key, ttlElapsed, markerVars,
                   envVars, ghostVars>>

\* odoo_config.py, main() of the helper started by the housekeeping:
\* ensure_config_file_exists opens LOCK_FILE_PATH = /etc/odoo/odoo.conf.lock
\* itself and calls fcntl.flock(LOCK_EX), which blocks as long as another
\* open file description -- that of the parent included -- holds a flock on
\* that file.  When the helper and the ones after it are through, the body
\* of the with-block ends; a non-zero exit status raises CalledProcessError.
odoo_config_ensure(p) ==
    /\ fl[p].pc = "helper"
    /\ fsMode = "flock" => flockOwner[FlTarget(p)] = NoOne
    /\ \E e \in BodyErrors(pc[p]) :
          fl' = [fl EXCEPT ![p].pc = "exit", ![p].err = e]
    /\ UNCHANGED <<pc, exitCode, loc, flShared, key, ttlElapsed, markerVars,
                   envVars, ghostVars>>

\* What the exit of _file_lock does to the lock files: LOCK_UN and close for
\* an advisory lock, close and unlink(missing_ok=True) for a sentinel, nothing
\* for a call that proceeded without lock.
FlReleasedOwner(p) ==
    [t \in Paths |-> IF fl[p].kind = "flock" /\ FlTarget(p) = t /\ flockOwner[t] = p
                     THEN NoOne ELSE flockOwner[t]]

FlReleasedFile(p) ==
    [t \in Paths |-> IF fl[p].kind = "sentinel" /\ FlTarget(p) = t
                     THEN FALSE ELSE lockFile[t]]

\* Where the caller continues after the with-block, given the error of the
\* body: initialise_instance catches PermissionError / FileNotFoundError
\* around both guarded writes, upgrade_modules only around the last one.
\* The restore branch of initialise_instance returns after its writes.
FlContinuation(l, e) ==
    CASE l = "restore_touch" -> IF env.target # "" THEN "restore_ts" ELSE "return_init"
      [] l = "restore_ts" -> "return_init"
      [] l = "init_touch" -> IF env.target # "" THEN "init_ts" ELSE "init_release"
      [] l = "init_ts" -> "init_release"
      [] l = "upg_empty_ts" -> IF e = "none" THEN "upg_release" ELSE "raise"
      [] l = "upg_ts" -> "upg_release"
      [] OTHER -> IF e = "none" THEN "ready" ELSE "raise"

\* An exit of _file_lock whose sentinel clean-up unlinks the guarded file
\* itself, not its lock file.
file_lock_exit_unlinks_target(p) ==
    /\ fl[p].pc = "exit"
    /\ flockOwner' = FlReleasedOwner(p)
    /\ lockFile' = FlReleasedFile(p)
    /\ fl' = [fl EXCEPT ![p] = FlIdle]
    /\ scaffolded' = IF fl[p].kind = "sentinel" /\ FlTarget(p) = "scaffold"
                     THEN FALSE ELSE scaffolded
    /\ LET c == FlContinuation(pc[p], fl[p].err) IN
       CASE c = "raise" -> Die(p, 1)
         [] c = "return_init" -> Return(p, "upgrade_check")
         [] c = "ready" -> Return(p, "ready")
         [] OTHER -> Move(p, c, [loc[p] EXCEPT !.werr = @ \/ fl[p].err # "none"])
    /\ UNCHANGED <<key, ttlElapsed, destroyMarker, timestamp, envVars, ghostVars>>

file_lock_exit(p) ==
    /\ fl[p].pc = "exit"
    /\ flockOwner' = FlReleasedOwner(p)
    /\ lockFile' = FlReleasedFile(p)
    /\ fl' = [fl EXCEPT ![p] = FlIdle]
    /\ LET c == FlContinuation(pc[p], fl[p].err) IN
       CASE c = "raise" -> Die(p, 1)
         [] c = "return_init" -> Return(p, "upgrade_check")
         [] c = "ready" -> Return(p, "ready")
         [] OTHER -> Move(p, c, [loc[p] EXCEPT !.werr = @ \/ fl[p].err # "none"])
    /\ UNCHANGED <<key, ttlElapsed, markerVars, envVars, ghostVars>>

(***************************************************************************)
(* The cache service: calls of the entry-point into lock_handler, and time.*)
(***************************************************************************)

\* _held_lock = bool(_lock_mod.acquire_lock(name)); when it is False the
\* replica waits (production) or continues without the lock (the test-suite
\* marker PYTEST_CURRENT_TEST is set).
Acquire(r, n, okPc, waitPc) ==
    \E up \in BOOLEAN :
        LET a == acquire_lock(key[n], r, up) IN
        /\ key' = [key EXCEPT ![n] = a.key]
        /\ unreach' = [unreach EXCEPT ![r] = ~up]
        /\ Move(r, IF a.result \/ env.pytest THEN okPc ELSE waitPc,
                [loc[r] EXCEPT !.held = a.result])

\* _lock_mod.wait_for_lock(name); return -- the return is reached by no
\* outcome of wait_for_lock.
Wait(r, n) ==
    \E up \in BOOLEAN :
        LET o == wait_for_lock(key[n], loc[r].waitAttempt, up) IN
        /\ unreach' = [unreach EXCEPT ![r] = @ \/ ~up]
        /\ CASE o = "exit0" -> Die(r, 0)
             [] o = "loop" -> Move(r, pc[r], [loc[r] EXCEPT !.waitAttempt = @ + 1])
             [] OTHER -> Die(r, 1)

\* A return into main() that forgets the release_lock call.
Release_forgotten(r, n, nextPc) ==
    /\ UNCHANGED <<key, releases>>
    /\ Return(r, nextPc)

\* if _held_lock and _lock_mod is not None: _lock_mod.release_lock(name),
\* then the return into main().
Release(r, n, nextPc) ==
    /\ IF loc[r].held
       THEN /\ \E up \in BOOLEAN : key' = [key EXCEPT ![n] = release_lock(key[n], up)]
            /\ releases' = [releases EXCEPT ![r][n] = @ + 1]
       ELSE UNCHANGED <<key, releases>>
    /\ Return(r, nextPc)

\* Time passes: every key loses one tick of its ttl; a key whose ttl is used
\* up is removed by the cache service.
Tick ==
    /\ \E n \in LockNames : key[n].present
    /\ key' = [n \in LockNames |->
                 IF ~key[n].present THEN key[n]
                 ELSE IF key[n].ttl = 1 THEN AbsentKey
                 ELSE [key[n] EXCEPT !.ttl = @ - 1]]
    /\ ttlElapsed' = (ttlElapsed \/ \E n \in LockNames : key[n].present /\ key[n].ttl = 1)
    /\ UNCHANGED <<pc, exitCode, loc, fl, markerVars, envVars, flShared,
                   ghostVars>>

(***************************************************************************)
(* entrypoint.py: main.                                                    *)
(***************************************************************************)

\* apply_runtime_user, fix_permissions (an exception ends the process with
\* status 1), then the entry of wait_for_dependencies: when ODOO_SKIP_CHOWN
\* is one of 1, true, yes, on the function returns at once.
main_wait_for_dependencies(r) ==
    /\ pc[r] = "start"
    /\ \/ \E skipChown \in BOOLEAN :
            Goto(r, IF skipChown THEN "destroy_check" ELSE "wait_redis")
       \/ Die(r, 1)
    /\ UNCHANGED <<fl, key, ttlElapsed, markerVars, envVars, flShared, ghostVars>>

\* One of the two waits of wait_for_dependencies, `dep` being "redis" or
\* "db": the helper module is importable and its wait returns (the
\* dependency answered) or ends the process (it never did); the module is
\* missing and the wait is skipped in development mode, or RuntimeError is
\* raised.  loc[r].waits keeps the waits that returned, and "skipped" for a
\* wait that was not made.
WaitForDependency(r, dep, nextPc) ==
    \E importable \in BOOLEAN :
        IF importable
        THEN \/ Move(r, nextPc, [loc[r] EXCEPT !.waits = @ \cup {dep}])
             \/ Die(r, 1)
        ELSE IF env.pytest
        THEN Move(r, nextPc, [loc[r] EXCEPT !.waits = @ \cup {"skipped"}])
        ELSE Die(r, 1)

\* from tools.src.lock_handler import wait_for_redis; wait_for_redis()
wait_for_dependencies_redis(r) ==
    /\ pc[r] = "wait_redis"
    /\ WaitForDependency(r, "redis", "wait_db")
    /\ UNCHANGED <<fl, key, ttlElapsed, markerVars, envVars, flShared, ghostVars>>

\* _wfp.wait_for_pgbouncer(...) or _wfp.wait_for_postgres(...)
wait_for_dependencies_db(r) ==
    /\ pc[r] = "wait_db"
    /\ WaitForDependency(r, "db", "destroy_check")
    /\ UNCHANGED <<fl, key, ttlElapsed, markerVars, envVars, flShared, ghostVars>>

\* if Path("/etc/odoo/.destroy").exists(): destroy_instance(env)
main_destroy_check(r) ==
    /\ pc[r] = "destroy_check"
    /\ IF destroyMarker
       THEN Move(r, "destroy_db",
                 [loc[r] EXCEPT !.destroyRet = "init_check", !.waits = {}])
       ELSE Move(r, "init_check", [loc[r] EXCEPT !.waits = {}])
    /\ UNCHANGED <<fl, key, ttlElapsed, markerVars, envVars, flShared, ghostVars>>

\* if not Path("/etc/odoo/.scaffolded").exists(): initialise_instance(env)
main_init_check(r) ==
    /\ pc[r] = "init_check"
    /\ Move(r, IF ~scaffolded THEN "init_acquire" ELSE "upgrade_check",
            [loc[r] EXCEPT !.wiped = FALSE])
    /\ UNCHANGED <<fl, key, ttlElapsed, markerVars, envVars, flShared, ghostVars>>

\* if not env.get("ODOO_NO_AUTO_UPGRADE") and update_needed(env):
\*     upgrade_modules(env)
main_upgrade_check(r) ==
    /\ pc[r] = "upgrade_check"
    /\ Goto(r, IF ~env.noUpgrade /\ update_needed(env, timestamp)
               THEN "upg_acquire" ELSE "housekeeping")
    /\ UNCHANGED <<fl, key, ttlElapsed, markerVars, envVars, flShared, ghostVars>>

(***************************************************************************)
(* entrypoint.py: destroy_instance.                                        *)
(***************************************************************************)

\* psql: terminate the back-ends, drop and recreate the database
\* (check=True), sleep, remove the filestore.
destroy_instance_db(r) ==
    /\ pc[r] = "destroy_db"
    /\ \/ Move(r, "destroy_unlink_destroy",
               [loc[r] EXCEPT !.destroys =
                    IF loc[r].destroyRet = "init_core" THEN @ + 1 ELSE @])
       \/ Die(r, 1)
    /\ UNCHANGED <<fl, key, ttlElapsed, markerVars, envVars, flShared, ghostVars>>

\* Path("/etc/odoo/.destroy").unlink()
destroy_instance_unlink_destroy(r) ==
    /\ pc[r] = "destroy_unlink_destroy"
    /\ destroyMarker' = FALSE
    /\ Goto(r, "destroy_unlink_scaffolded")
    /\ UNCHANGED <<fl, key, ttlElapsed, scaffolded, timestamp, envVars,
                   flShared, ghostVars>>

\* Path("/etc/odoo/.scaffolded").unlink()
destroy_instance_unlink_scaffolded(r) ==
    /\ pc[r] = "destroy_unlink_scaffolded"
    /\ scaffolded' = FALSE
    /\ Move(r, loc[r].destroyRet,
            [loc[r] EXCEPT !.wiped = (loc[r].destroyRet = "init_check")])
    /\ UNCHANGED <<fl, key, ttlElapsed, destroyMarker, timestamp, envVars,
                   flShared, ghostVars>>

(***************************************************************************)
(* entrypoint.py: initialise_instance.                                     *)
(***************************************************************************)

initialise_instance_acquire(r) ==
    /\ pc[r] = "init_acquire"
    /\ Acquire(r, "initlead", "init_restore", "init_wait")
    /\ UNCHANGED <<fl, ttlElapsed, markerVars, envVars, flShared, installed,
                   releases>>

initialise_instance_wait(r) ==
    /\ pc[r] = "init_wait"
    /\ Wait(r, "initlead")
    /\ UNCHANGED <<fl, key, ttlElapsed, markerVars, envVars, flShared, installed,
                   releases>>

\* The restore helper: absent -> fresh initialisation; exit status 0 ->
\* odoo-regenerate-assets (check=True), then the markers and an early return;
\* non-zero -> destroy_instance, then the fresh initialisation.
initialise_instance_restore(r) ==
    /\ pc[r] = "init_restore"
    /\ \/ Goto(r, "init_helpers")
       \/ Move(r, "destroy_db", [loc[r] EXCEPT !.destroyRet = "init_helpers"])
       \/ Goto(r, "restore_touch")
       \/ Die(r, 1)
    /\ UNCHANGED <<fl, key, ttlElapsed, markerVars, envVars, flShared, ghostVars>>

\* odoo-addon-updater, odoo-config --defaults (check=True), then the module
\* lists of the two tiers (collect_addons raises on a dependency cycle).
initialise_instance_helpers(r) ==
    /\ pc[r] = "init_helpers"
    /\ \/ Goto(r, "init_core")
       \/ Die(r, 1)
    /\ UNCHANGED <<fl, key, ttlElapsed, markerVars, envVars, flShared, ghostVars>>

\* The tier that _run_odoo installs at a position of the retry loop:
\* core_modules first, extra_modules second.  loc[r].tiersOk holds the tiers
\* whose subprocess.run returned exit status 0 in the current attempt.
TierAt(l) == IF l = "init_core" THEN "core" ELSE "extra"

\* The retry resuming at the tier that failed, not at the first one.
RunOdoo_resumes_failed_tier(r, nonEmpty, okPc) ==
    IF ~nonEmpty \/ ~env.binary
    THEN Goto(r, okPc) /\ UNCHANGED installed
    ELSE \/ /\ installed' = [installed EXCEPT ![r] = TRUE]
            /\ Move(r, okPc, [loc[r] EXCEPT !.tiersOk = @ \cup {TierAt(pc[r])}])
         \/ /\ installed' = [installed EXCEPT ![r] = TRUE]
            /\ IF loc[r].attempt = 1
               THEN Move(r, "destroy_db",
                         [loc[r] EXCEPT !.attempt = 2, !.destroyRet = pc[r],
                                        !.tiersOk = {}])
               ELSE Die(r, 1)

\* The retry loop without its destroy_instance call: a failed first attempt
\* is followed at once by the second one.
RunOdoo_without_destroy(r, nonEmpty, okPc) ==
    IF ~nonEmpty \/ ~env.binary
    THEN Goto(r, okPc) /\ UNCHANGED installed
    ELSE \/ /\ installed' = [installed EXCEPT ![r] = TRUE]
            /\ Move(r, okPc, [loc[r] EXCEPT !.tiersOk = @ \cup {TierAt(pc[r])}])
         \/ /\ installed' = [installed EXCEPT ![r] = TRUE]
            /\ IF loc[r].attempt = 1
               THEN Move(r, "init_core",
                         [loc[r] EXCEPT !.attempt = 2, !.tiersOk = {}])
               ELSE Die(r, 1)

\* The retry loop without its bound: every failed attempt is followed by a
\* destroy_instance call and one more attempt.
RunOdoo_unbounded(r, nonEmpty, okPc) ==
    IF ~nonEmpty \/ ~env.binary
    THEN Goto(r, okPc) /\ UNCHANGED installed
    ELSE \/ /\ installed' = [installed EXCEPT ![r] = TRUE]
            /\ Move(r, okPc, [loc[r] EXCEPT !.tiersOk = @ \cup {TierAt(pc[r])}])
         \/ /\ installed' = [installed EXCEPT ![r] = TRUE]
            /\ loc[r].attempt <= 3
            /\ Move(r, "destroy_db",
                    [loc[r] EXCEPT !.attempt = @ + 1, !.destroyRet = "init_core",
                                   !.tiersOk = {}])

\* _run_odoo("init", mods) inside the retry loop: nothing for an empty list;
\* nothing when /usr/bin/odoo is no file (env.binary is false); a CalledProcessError on the first
\* attempt runs destroy_instance and starts the second attempt; on the
\* second attempt it is re-raised.
RunOdoo(r, nonEmpty, okPc) ==
    IF ~nonEmpty \/ ~env.binary
    THEN Goto(r, okPc) /\ UNCHANGED installed
    ELSE \/ /\ installed' = [installed EXCEPT ![r] = TRUE]
            /\ Move(r, okPc, [loc[r] EXCEPT !.tiersOk = @ \cup {TierAt(pc[r])}])
         \/ /\ installed' = [installed EXCEPT ![r] = TRUE]
            /\ IF loc[r].attempt = 1
               THEN Move(r, "destroy_db",
                         [loc[r] EXCEPT !.attempt = 2, !.destroyRet = "init_core",
                                        !.tiersOk = {}])
               ELSE Die(r, 1)

initialise_instance_core(r) ==
    /\ pc[r] = "init_core"
    /\ RunOdoo(r, env.core, "init_extra")
    /\ UNCHANGED <<fl, key, ttlElapsed, markerVars, envVars, flShared,
                   releases, unreach>>

initialise_instance_extra(r) ==
    /\ pc[r] = "init_extra"
    /\ RunOdoo(r, env.extra, "init_touch")
    /\ UNCHANGED <<fl, key, ttlElapsed, markerVars, envVars, flShared,
                   releases, unreach>>

initialise_instance_release(r) ==
    /\ pc[r] = "init_release"
    /\ Release(r, "initlead", "upgrade_check")
    /\ UNCHANGED <<fl, ttlElapsed, markerVars, envVars, flShared, installed,
                   unreach>>

(***************************************************************************)
(* entrypoint.py: upgrade_modules.                                         *)
(***************************************************************************)

upgrade_modules_acquire(r) ==
    /\ pc[r] = "upg_acquire"
    /\ Acquire(r, "upgradelead", "upg_needed", "upg_wait")
    /\ UNCHANGED <<fl, ttlElapsed, markerVars, envVars, flShared, installed,
                   releases>>

upgrade_modules_wait(r) ==
    /\ pc[r] = "upg_wait"
    /\ Wait(r, "upgradelead")
    /\ UNCHANGED <<fl, key, ttlElapsed, markerVars, envVars, flShared, installed,
                   releases>>

\* The fast exits: ODOO_NO_AUTO_UPGRADE set, or update_needed(env) false.
upgrade_modules_fast_exit(r) ==
    /\ pc[r] = "upg_needed"
    /\ IF env.noUpgrade
       THEN Move(r, "upg_release", [loc[r] EXCEPT !.path = "flag"])
       ELSE IF ~update_needed(env, timestamp)
       THEN Move(r, "upg_release", [loc[r] EXCEPT !.path = "current"])
       ELSE Goto(r, "upg_collect")
    /\ UNCHANGED <<fl, key, ttlElapsed, markerVars, envVars, flShared, ghostVars>>

\* modules = collect_addons(...) (it raises on a dependency cycle); an empty
\* list refreshes the timestamp and returns; otherwise
\* remaining = set(modules), failed = set().
upgrade_modules_collect(r) ==
    /\ pc[r] = "upg_collect"
    /\ \/ Move(r, IF env.catalog # {} THEN "upg_pass"
                  ELSE IF env.target # "" THEN "upg_empty_ts"
                  ELSE "upg_release",
               [loc[r] EXCEPT !.remaining = env.catalog, !.todo = env.catalog,
                              !.failed = {}, !.upass = 1,
                              !.path = IF env.catalog # {} THEN "passes"
                                       ELSE "empty"])
       \/ Die(r, 1)
    /\ UNCHANGED <<fl, key, ttlElapsed, markerVars, envVars, flShared, ghostVars>>

\* sorted(remaining): the modules are run in the order of their names.
Rank(m) == IF m = "m1" THEN 1 ELSE 2
FirstOf(S) == CHOOSE m \in S : \A x \in S : Rank(m) <= Rank(x)

\* The pass loop retrying the whole list, not only the failures of the
\* previous pass.
upgrade_modules_run_retry_all(r) ==
    /\ pc[r] = "upg_pass"
    /\ \E ok \in (IF env.binary THEN BOOLEAN ELSE {TRUE}) :
        LET m == FirstOf(loc[r].todo)
            rest == loc[r].todo \ {m}
            fail1 == IF ok THEN loc[r].failed \ {m} ELSE loc[r].failed \cup {m}
            again == IF fail1 = {} THEN {} ELSE env.catalog
            ran == [loc[r] EXCEPT
                       !.calls[m] = IF env.binary THEN @ + 1 ELSE @,
                       !.succeeded = IF env.binary /\ ok THEN @ \cup {m} ELSE @]
        IN  IF rest # {}
            THEN Move(r, "upg_pass", [ran EXCEPT !.todo = rest, !.failed = fail1])
            ELSE Move(r, IF loc[r].upass = UpgradePasses \/ fail1 = {}
                         THEN "upg_post" ELSE "upg_pass",
                      [ran EXCEPT !.todo = again, !.remaining = fail1,
                                  !.failed = {}, !.upass = @ + 1])
    /\ UNCHANGED <<fl, key, ttlElapsed, markerVars, envVars, flShared, ghostVars>>

\* One iteration of `for module in sorted(remaining)`: the binary is absent
\* (no run is made, the module leaves remaining) or the run succeeds (the
\* module leaves remaining and failed), or the run fails (it joins failed).  After the last module of the pass:
\* remaining = failed.copy(); failed.clear(); the loop ends after the last
\* pass or when remaining is empty.
upgrade_modules_run(r) ==
    /\ pc[r] = "upg_pass"
    /\ \E ok \in (IF env.binary THEN BOOLEAN ELSE {TRUE}) :
        LET m == FirstOf(loc[r].todo)
            rest == loc[r].todo \ {m}
            rem1 == IF ok THEN loc[r].remaining \ {m} ELSE loc[r].remaining
            fail1 == IF ok THEN loc[r].failed \ {m} ELSE loc[r].failed \cup {m}
            ran == [loc[r] EXCEPT
                       !.calls[m] = IF env.binary THEN @ + 1 ELSE @,
                       !.succeeded = IF env.binary /\ ok THEN @ \cup {m} ELSE @]
        IN  IF rest # {}
            THEN Move(r, "upg_pass",
                      [ran EXCEPT !.todo = rest, !.remaining = rem1,
                                  !.failed = fail1])
            ELSE Move(r, IF loc[r].upass = UpgradePasses \/ fail1 = {}
                         THEN "upg_post" ELSE "upg_pass",
                      [ran EXCEPT !.todo = fail1, !.remaining = fail1,
                                  !.failed = {}, !.upass = @ + 1])
    /\ UNCHANGED <<fl, key, ttlElapsed, markerVars, envVars, flShared, ghostVars>>

\* The post-processing raising for any module still failing.
upgrade_modules_post_any_failure(r) ==
    /\ pc[r] = "upg_post"
    /\ IF loc[r].remaining # {}
       THEN Die(r, 1)
       ELSE Goto(r, IF env.target # "" THEN "upg_ts" ELSE "upg_release")
    /\ UNCHANGED <<fl, key, ttlElapsed, markerVars, envVars, flShared, ghostVars>>

\* if remaining and len(remaining) == len(modules): raise RuntimeError(...)
upgrade_modules_post(r) ==
    /\ pc[r] = "upg_post"
    /\ IF loc[r].remaining # {}
          /\ Cardinality(loc[r].remaining) = Cardinality(env.catalog)
       THEN Die(r, 1)
       ELSE Goto(r, IF env.target # "" THEN "upg_ts" ELSE "upg_release")
    /\ UNCHANGED <<fl, key, ttlElapsed, markerVars, envVars, flShared, ghostVars>>

upgrade_modules_release(r) ==
    /\ pc[r] = "upg_release"
    /\ Release(r, "upgradelead", "housekeeping")
    /\ UNCHANGED <<fl, ttlElapsed, markerVars, envVars, flShared, installed,
                   unreach>>

(***************************************************************************)
(* Signals.  entrypoint.py installs no handler: SIGTERM ends the process   *)
(* at once, SIGINT raises KeyboardInterrupt, which unwinds the with-block  *)
(* of _file_lock and is caught by no handler of main().                    *)
(***************************************************************************)

DroppedFlock(r) ==
    [t \in Paths |-> IF flockOwner[t] = r THEN NoOne ELSE flockOwner[t]]

terminate(r) ==
    /\ Running(r)
    /\ Die(r, 143)
    /\ flockOwner' = DroppedFlock(r)
    /\ fl' = [fl EXCEPT ![r] = FlIdle]
    /\ UNCHANGED <<lockFile, key, ttlElapsed, markerVars, envVars, ghostVars>>

interrupt(r) ==
    /\ Running(r)
    /\ Die(r, 130)
    /\ flockOwner' = DroppedFlock(r)
    /\ lockFile' = IF fl[r].pc \in {"body", "helper", "exit"} THEN FlReleasedFile(r) ELSE lockFile
    /\ fl' = [fl EXCEPT ![r] = FlIdle]
    /\ UNCHANGED <<key, ttlElapsed, markerVars, envVars, ghostVars>>

(***************************************************************************)
(* The replicas booting together.                                          *)
(***************************************************************************)

\* The boot specifications leave the resolution of the module lists to
\* env.catalog.
NothingDiscovered == [scan |-> <<>>, blocked |-> {}, languages |-> NoLanguages]

InitLocals ==
    /\ exitCode = [r \in Replicas |-> -1]
    /\ loc = [r \in Replicas |-> NoLocals]
    /\ fl = [r \in Replicas |-> FlIdle]
    /\ key = [n \in LockNames |-> AbsentKey]
    /\ lockFile = [t \in Paths |-> FALSE]
    /\ flockOwner = [t \in Paths |-> NoOne]
    /\ installed = [r \in Replicas |-> FALSE]
    /\ releases = [r \in Replicas |-> [n \in LockNames |-> 0]]
    /\ unreach = [r \in Replicas |-> FALSE]
    /\ ttlElapsed = FALSE
    /\ discovered = NothingDiscovered
    /\ ordered = NotRun
    /\ config = NoConfig

\* One replica boots, the other one has handed off to the application.
SoloEnvs ==
    [target : {"", NewRevision}, pytest : BOOLEAN, noUpgrade : BOOLEAN,
     binary : BOOLEAN, core : BOOLEAN, extra : BOOLEAN,
     catalog : {{}, {"m1"}, {"m1", "m2"}}]

InitSolo ==
    /\ pc = [r \in Replicas |-> IF r = "r1" THEN "start" ELSE "ready"]
    /\ destroyMarker \in BOOLEAN
    /\ scaffolded \in BOOLEAN
    /\ timestamp \in {NoFile, OldRevision, NewRevision}
    /\ env \in SoloEnvs
    /\ fsMode \in FsModes
    /\ InitLocals

\* All replicas boot together, in production.
Envs ==
    [target : {NewRevision}, pytest : {FALSE}, noUpgrade : {FALSE},
     binary : {TRUE}, core : {TRUE}, extra : {TRUE}, catalog : {{"m1"}}]

Init ==
    /\ pc = [r \in Replicas |-> "start"]
    /\ destroyMarker \in BOOLEAN
    /\ scaffolded \in BOOLEAN
    /\ timestamp \in {OldRevision, NewRevision}
    /\ env \in Envs
    /\ fsMode \in {"flock", "enotsup", "ebadf"}
    /\ InitLocals

Next ==
    \/ Tick
    \/ \E r \in Replicas :
        \/ main_wait_for_dependencies(r)
        \/ wait_for_dependencies_redis(r)
        \/ wait_for_dependencies_db(r)
        \/ main_destroy_check(r)
        \/ main_init_check(r)
        \/ main_upgrade_check(r)
        \/ destroy_instance_db(r)
        \/ destroy_instance_unlink_destroy(r)
        \/ destroy_instance_unlink_scaffolded(r)
        \/ initialise_instance_acquire(r)
        \/ initialise_instance_wait(r)
        \/ initialise_instance_restore(r)
        \/ initialise_instance_helpers(r)
        \/ initialise_instance_core(r)
        \/ initialise_instance_extra(r)
        \/ initialise_instance_release(r)
        \/ upgrade_modules_acquire(r)
        \/ upgrade_modules_wait(r)
        \/ upgrade_modules_fast_exit(r)
        \/ upgrade_modules_collect(r)
        \/ upgrade_modules_run(r)
        \/ upgrade_modules_post(r)
        \/ upgrade_modules_release(r)
        \/ file_lock_open(r)
        \/ file_lock_flock(r)
        \/ file_lock_unlink_placeholder(r)
        \/ file_lock_create(r)
        \/ file_lock_create_bounded(r)
        \/ file_lock_body(r)
        \/ runtime_housekeeping_call(r)
        \/ odoo_config_ensure(r)
        \/ file_lock_exit(r)
        \/ terminate(r)
        \/ interrupt(r)

Spec == Init /\ [][Next]_vars

SpecSolo == InitSolo /\ [][Next]_vars

(***************************************************************************)
(* Two processes inside _file_lock: each replica is about to enter a       *)
(* guarded write of initialise_instance or the guarded housekeeping; a     *)
(* sidecar left behind by an earlier boot may exist.                       *)
(***************************************************************************)

InitFileLock ==
    /\ pc \in [Replicas -> {"init_touch", "housekeeping"}]
    /\ destroyMarker = FALSE
    /\ scaffolded \in BOOLEAN
    /\ timestamp = OldRevision
    /\ env \in Envs
    /\ fsMode \in FsModes
    /\ exitCode = [r \in Replicas |-> -1]
    /\ loc = [r \in Replicas |-> NoLocals]
    /\ fl = [r \in Replicas |-> FlIdle]
    /\ key = [n \in LockNames |-> AbsentKey]
    /\ lockFile \in {[t \in Paths |-> FALSE], [t \in Paths |-> TRUE]}
    /\ flockOwner = [t \in Paths |-> NoOne]
    /\ installed = [r \in Replicas |-> FALSE]
    /\ releases = [r \in Replicas |-> [n \in LockNames |-> 0]]
    /\ unreach = [r \in Replicas |-> FALSE]
    /\ ttlElapsed = FALSE
    /\ discovered = NothingDiscovered
    /\ ordered = NotRun
    /\ config = NoConfig

NextFileLock ==
    \E r \in Replicas :
        \/ file_lock_open(r)
        \/ file_lock_flock(r)
        \/ file_lock_unlink_placeholder(r)
        \/ file_lock_create(r)
        \/ file_lock_create_bounded(r)
        \/ file_lock_body(r)
        \/ runtime_housekeeping_call(r)
        \/ odoo_config_ensure(r)
        \/ file_lock_exit(r)
        \/ terminate(r)
        \/ interrupt(r)

SpecFileLock == InitFileLock /\ [][NextFileLock]_vars

\* A process inside _file_lock goes on: every statement of the function but
\* the sleeping create loops returns by itself, and a create loop makes its
\* next attempt.  Signals are not bound to arrive.
FileLockStep(r) ==
    \/ file_lock_open(r)
    \/ file_lock_flock(r)
    \/ file_lock_unlink_placeholder(r)
    \/ file_lock_create(r)
    \/ file_lock_create_bounded(r)
    \/ file_lock_body(r)
    \/ runtime_housekeeping_call(r)
    \/ odoo_config_ensure(r)
    \/ file_lock_exit(r)

SpecFileLockFair ==
    /\ SpecFileLock
    /\ \A r \in Replicas : WF_vars(FileLockStep(r))

\* One process inside _file_lock and no other process anywhere near the
\* lock path: the process enters any of the guarded statements; a lock file
\* left behind by an earlier boot may exist.
InitFileLockAlone ==
    /\ pc \in {f \in [Replicas -> FlCallers \cup {"ready"}] :
                   f["r1"] \in FlCallers /\ f["r2"] = "ready"}
    /\ destroyMarker = FALSE
    /\ scaffolded \in BOOLEAN
    /\ timestamp \in {NoFile, OldRevision}
    /\ env \in Envs
    /\ fsMode \in FsModes
    /\ exitCode = [r \in Replicas |-> -1]
    /\ loc = [r \in Replicas |-> NoLocals]
    /\ fl = [r \in Replicas |-> FlIdle]
    /\ key = [n \in LockNames |-> AbsentKey]
    /\ lockFile \in {[t \in Paths |-> FALSE], [t \in Paths |-> TRUE]}
    /\ flockOwner = [t \in Paths |-> NoOne]
    /\ installed = [r \in Replicas |-> FALSE]
    /\ releases = [r \in Replicas |-> [n \in LockNames |-> 0]]
    /\ unreach = [r \in Replicas |-> FALSE]
    /\ ttlElapsed = FALSE
    /\ discovered = NothingDiscovered
    /\ ordered = NotRun
    /\ config = NoConfig

SpecFileLockAlone == InitFileLockAlone /\ [][NextFileLock]_vars

(***************************************************************************)
(* upgrade_modules called on its own, as the test-suite does: one process  *)
(* enters the function in any environment, whatever main() would have      *)
(* decided, and goes on to the housekeeping when the call returns.         *)
(***************************************************************************)

UpgradeEnvs ==
    [target : {"", NewRevision}, pytest : BOOLEAN, noUpgrade : BOOLEAN,
     binary : BOOLEAN, core : {TRUE}, extra : {TRUE},
     catalog : {{}, {"m1"}, {"m1", "m2"}}]

InitUpgrade ==
    /\ pc = [r \in Replicas |-> IF r = "r1" THEN "upg_acquire" ELSE "ready"]
    /\ destroyMarker = FALSE
    /\ scaffolded = TRUE
    /\ timestamp \in {NoFile, OldRevision, NewRevision}
    /\ env \in UpgradeEnvs
    /\ fsMode \in FsModes
    /\ InitLocals

NextUpgrade ==
    \/ Tick
    \/ \E r \in Replicas :
        \/ upgrade_modules_acquire(r)
        \/ upgrade_modules_wait(r)
        \/ upgrade_modules_fast_exit(r)
        \/ upgrade_modules_collect(r)
        \/ upgrade_modules_run(r)
        \/ upgrade_modules_post(r)
        \/ upgrade_modules_release(r)
        \/ file_lock_open(r)
        \/ file_lock_flock(r)
        \/ file_lock_unlink_placeholder(r)
        \/ file_lock_create(r)
        \/ file_lock_create_bounded(r)
        \/ file_lock_body(r)
        \/ runtime_housekeeping_call(r)
        \/ odoo_config_ensure(r)
        \/ file_lock_exit(r)
        \/ terminate(r)
        \/ interrupt(r)

SpecUpgrade == InitUpgrade /\ [][NextUpgrade]_vars

(***************************************************************************)
(* Two odoo-config processes, each running `set <section> <key> <value>`   *)
(* on the same configuration file.                                         *)
(***************************************************************************)

\* read_config_lines: fcntl.flock(lockfile, LOCK_SH), which waits while an
\* exclusive flock is held on odoo.conf.lock.
read_config_lines_lock(p) ==
    /\ config.proc[p].pc = "start"
    /\ flockOwner["conf"] = NoOne
    /\ config' = [config EXCEPT !.readers = @ \cup {p},
                                !.proc[p].pc = "reading"]
    /\ UNCHANGED <<pc, exitCode, loc, fl, key, markerVars, env, fsMode,
                   flShared, ghostVars, ttlElapsed, discovered, ordered>>

\* read_config_lines: lines = configfile.readlines(); flock(LOCK_UN);
\* return lines.
read_config_lines_read(p) ==
    /\ config.proc[p].pc = "reading"
    /\ config' = [config EXCEPT !.readers = @ \ {p},
                                !.proc[p].lines = config.file,
                                !.proc[p].pc = "computing"]
    /\ UNCHANGED <<pc, exitCode, loc, fl, key, markerVars, env, fsMode,
                   flShared, ghostVars, ttlElapsed, discovered, ordered>>

\* set_config builds new_lines; write_config_lines writes them to a
\* temporary file and calls fcntl.flock(lockfile, LOCK_EX), which waits
\* while any other flock is held on odoo.conf.lock.
write_config_lines_lock(p) ==
    /\ config.proc[p].pc = "computing"
    /\ flockOwner["conf"] = NoOne
    /\ config.readers = {}
    /\ flockOwner' = [flockOwner EXCEPT !["conf"] = p]
    /\ config' = [config EXCEPT
                     !.proc[p].lines = set_config_lines(@, config.proc[p].key,
                                                        config.proc[p].value),
                     !.proc[p].pc = "replacing"]
    /\ UNCHANGED <<pc, exitCode, loc, fl, key, markerVars, env, fsMode,
                   lockFile, ghostVars, ttlElapsed, discovered, ordered>>

\* write_config_lines: os.replace(temp_path, CONFIG_FILE_PATH);
\* flock(LOCK_UN).
write_config_lines_replace(p) ==
    /\ config.proc[p].pc = "replacing"
    /\ flockOwner' = [flockOwner EXCEPT !["conf"] = NoOne]
    /\ config' = [config EXCEPT !.file = config.proc[p].lines,
                                !.proc[p].pc = "done"]
    /\ UNCHANGED <<pc, exitCode, loc, fl, key, markerVars, env, fsMode,
                   lockFile, ghostVars, ttlElapsed, discovered, ordered>>

InitConfig ==
    /\ pc = [r \in Replicas |-> "ready"]
    /\ destroyMarker = FALSE
    /\ scaffolded = TRUE
    /\ timestamp = NewRevision
    /\ env \in Envs
    /\ fsMode = "flock"
    /\ exitCode = [r \in Replicas |-> -1]
    /\ loc = [r \in Replicas |-> NoLocals]
    /\ fl = [r \in Replicas |-> FlIdle]
    /\ key = [n \in LockNames |-> AbsentKey]
    /\ lockFile = [t \in Paths |-> IF t = "conf" THEN TRUE ELSE FALSE]
    /\ flockOwner = [t \in Paths |-> NoOne]
    /\ installed = [r \in Replicas |-> FALSE]
    /\ releases = [r \in Replicas |-> [n \in LockNames |-> 0]]
    /\ unreach = [r \in Replicas |-> FALSE]
    /\ ttlElapsed = FALSE
    /\ discovered = NothingDiscovered
    /\ ordered = NotRun
    /\ config \in [file : [ConfKeys -> {Unset, OldValue}],
                   readers : {{}},
                   proc : [Replicas -> [pc : {"start"}, key : ConfKeys,
                                        value : NewValues,
                                        lines : {[k \in ConfKeys |-> Unset]}]]]

NextConfig ==
    \E p \in Replicas :
        \/ read_config_lines_lock(p)
        \/ read_config_lines_read(p)
        \/ write_config_lines_lock(p)
        \/ write_config_lines_replace(p)

SpecConfig == InitConfig /\ [][NextConfig]_vars

(***************************************************************************)
(* collect_addons called on every scan of at most MaxScan manifests.       *)
(***************************************************************************)

SeqsUpTo(S, n) == UNION {[1..k -> S] : k \in 0..n}

\* The `depends` tuples: up to MaxDepends distinct names.
DependsLists ==
    {d \in SeqsUpTo(AddonNames, MaxDepends) :
        \A i \in 1..Len(d), j \in 1..Len(d) : i # j => d[i] # d[j]}

Scans == SeqsUpTo([name : AddonNames, depends : DependsLists, kind : {"dict"}],
                 MaxScan)

InitResolve ==
    /\ pc = [r \in Replicas |-> "ready"]
    /\ destroyMarker = FALSE
    /\ scaffolded = TRUE
    /\ timestamp = NewRevision
    /\ env \in Envs
    /\ fsMode = "flock"
    /\ exitCode = [r \in Replicas |-> -1]
    /\ loc = [r \in Replicas |-> NoLocals]
    /\ fl = [r \in Replicas |-> FlIdle]
    /\ key = [n \in LockNames |-> AbsentKey]
    /\ lockFile = [t \in Paths |-> FALSE]
    /\ flockOwner = [t \in Paths |-> NoOne]
    /\ installed = [r \in Replicas |-> FALSE]
    /\ releases = [r \in Replicas |-> [n \in LockNames |-> 0]]
    /\ unreach = [r \in Replicas |-> FALSE]
    /\ ttlElapsed = FALSE
    /\ discovered \in [scan : Scans, blocked : {{}, {"c"}},
                        languages : {NoLanguages}]
    /\ ordered = NotRun
    /\ config = NoConfig

collect_addons_call ==
    /\ ~ordered.ran
    /\ ordered' = collect_addons(discovered.scan, discovered.languages,
                                 discovered.blocked)
    /\ UNCHANGED <<pc, exitCode, loc, fl, key, destroyMarker, scaffolded,
                   timestamp, env, fsMode, lockFile, flockOwner, installed,
                   releases, unreach, ttlElapsed, discovered, config>>

NextResolve == collect_addons_call

SpecResolve == InitResolve /\ [][NextResolve]_vars

(***************************************************************************)
(* collect_addons called with a locale filter on manifests of every kind.  *)
(***************************************************************************)

LocaleNames == {"base", "l10n_au", "L10N_DE_reports", "l10n_multilang"}

MaxManifests == 3

\* A manifest that does not yield an add-on has no dependency list.
Manifests ==
    [name : LocaleNames, depends : {<<>>, <<"base">>}, kind : {"dict"}]
        \cup [name : LocaleNames, depends : {<<>>},
              kind : ManifestKinds \ {"dict"}]

\* languages: None, [], ["en_AU"], ["en_AU", "de_DE"], ["fr"].
LanguageChoices ==
    {NoLanguages, Languages(<<>>), Languages(<< <<"en", "AU">> >>),
     Languages(<< <<"en", "AU">>, <<"de", "DE">> >>),
     Languages(<< <<"fr">> >>)}

InitScan ==
    /\ pc = [r \in Replicas |-> "ready"]
    /\ destroyMarker = FALSE
    /\ scaffolded = TRUE
    /\ timestamp = NewRevision
    /\ env \in Envs
    /\ fsMode = "flock"
    /\ exitCode = [r \in Replicas |-> -1]
    /\ loc = [r \in Replicas |-> NoLocals]
    /\ fl = [r \in Replicas |-> FlIdle]
    /\ key = [n \in LockNames |-> AbsentKey]
    /\ lockFile = [t \in Paths |-> FALSE]
    /\ flockOwner = [t \in Paths |-> NoOne]
    /\ installed = [r \in Replicas |-> FALSE]
    /\ releases = [r \in Replicas |-> [n \in LockNames |-> 0]]
    /\ unreach = [r \in Replicas |-> FALSE]
    /\ ttlElapsed = FALSE
    /\ discovered \in [scan : SeqsUpTo(Manifests, MaxManifests),
                       blocked : {{}}, languages : LanguageChoices]
    /\ ordered = NotRun
    /\ config = NoConfig

NextScan == collect_addons_call

SpecScan == InitScan /\ [][NextScan]_vars

(***************************************************************************)
(* Properties of the distributed lock and of the phases that use it.       *)
(***************************************************************************)

\* The exit statuses of a process ended by SIGINT (KeyboardInterrupt) or by
\* SIGTERM.
BySignal(c) == c \in {130, 143}

\* The replica is inside the function guarded by the lock `n`, after its own
\* successful acquire_lock and before its own release_lock.
InSection(r, n) ==
    /\ loc[r].held
    /\ IF n = "initlead" THEN InInit(r) ELSE InUpgrade(r)

AcquirePc(n) == IF n = "initlead" THEN "init_acquire" ELSE "upg_acquire"

AfterAcquirePcs(n) ==
    IF n = "initlead" THEN {"init_restore", "init_wait"}
    ELSE {"upg_needed", "upg_wait"}

\* C1: among the replicas booting together, at most one ever runs the
\* Executor for an install pass; in particular a replica that acquires
\* 'initlead' after the leader wrote the scaffold marker and released the
\* lock does not install again.  (No lock key has expired.)
C1_SingleInstaller ==
    ~ttlElapsed => Cardinality({r \in Replicas : installed[r]}) <= 1

\* C2: for each lock name at most one replica is between its own successful
\* acquire and its own release, also once LOCK_EXPIRE_TIME has elapsed since
\* the holder acquired.
C2_MutualExclusion ==
    \A n \in LockNames : Cardinality({r \in Replicas : InSection(r, n)}) <= 1

C4_InitReleasesOnEveryExit ==
    [][\A r \in Replicas :
          (InSection(r, "initlead") /\ ~(InInit(r))' /\ ~BySignal(exitCode'[r]))
             => releases'[r]["initlead"] = 1]_vars

\* C5: a replica that acquired 'upgradelead' and entered the upgrade passes
\* has released it when upgrade_modules returns or raises, the raise for a
\* total failure included.
C5_UpgradeReleasesOnEveryExit ==
    [][\A r \in Replicas :
          (/\ InSection(r, "upgradelead")
           /\ pc[r] \in {"upg_pass", "upg_post", "upg_ts", "upg_release"}
           /\ ~(InUpgrade(r))'
           /\ ~BySignal(exitCode'[r]))
             => releases'[r]["upgradelead"] >= 1]_vars

\* C6: a replica ended by a termination or interrupt signal leaves behind no
\* lock key it created.
C6_SignalReleasesLock ==
    \A r \in Replicas, n \in LockNames :
        (pc[r] = "exited" /\ BySignal(exitCode[r]))
            => ~(key[n].present /\ key[n].owner = r)

\* C7: when the wait of a replica whose acquire of 'initlead' was refused
\* ends, other than by a failure or a signal, the replica goes on with the
\* same boot at the upgrade check, having run no install pass.
C7_WaiterContinuesBoot ==
    [][\A r \in Replicas :
          (/\ pc[r] = "init_wait"
           /\ ~unreach[r]
           /\ pc'[r] # "init_wait"
           /\ exitCode'[r] \notin {1, 130, 143})
             => (pc'[r] = "upgrade_check" /\ ~installed'[r])]_vars

\* C8: in production a boot whose acquire_lock met an unreachable cache ends
\* with a non-zero status: it is neither a boot that waited and skipped the
\* phase nor one that went on without the lock.
C8_UnreachableIsFatal ==
    \A r \in Replicas :
        (~env.pytest /\ unreach[r])
            => \/ pc[r] \in {"init_wait", "upg_wait"}
               \/ pc[r] = "exited" /\ exitCode[r] # 0

\* The process is inside the with-block of _file_lock, having acquired a
\* lock resource on the shared lock path (advisory lock or sentinel).
InGuardedBody(p) ==
    /\ fl[p].pc \in {"body", "helper", "exit"}
    /\ fl[p].kind \in {"flock", "sentinel"}

\* C9: the guarded bodies of two processes running _file_lock on the same
\* target, each having acquired a lock resource, never overlap.
C9_BodiesExclusive ==
    \A p \in Replicas, q \in Replicas :
        (p # q /\ InGuardedBody(p) /\ InGuardedBody(q))
            => FlTarget(p) # FlTarget(q)

\* Some process is executing the body of _file_lock on the target `t` with a
\* lock resource acquired.
WritesUnderLock(t) ==
    \E r \in Replicas :
        /\ fl[r].pc = "body"
        /\ fl'[r].pc = "exit"
        /\ fl[r].kind \in {"flock", "tmpflock", "sentinel"}
        /\ FlTarget(r) = t

\* C10: every change of the scaffold marker and of the revision marker, by
\* any phase, is made by a process holding the file lock of that marker.
C10_MarkersMutatedUnderLock ==
    [][/\ scaffolded' # scaffolded => WritesUnderLock("scaffold")
       /\ timestamp' # timestamp => WritesUnderLock("timestamp")]_vars

(***************************************************************************)
(* Properties of Destroy, Initialize and Upgrade.                          *)
(***************************************************************************)

\* C11: when destroy_instance completes without error the destroy marker,
\* the scaffold marker and the revision marker are all absent.
C11_DestroyClearsMarkers ==
    [][\A r \in Replicas :
          (pc[r] = "destroy_unlink_scaffolded" /\ pc'[r] = loc[r].destroyRet)
             => (~destroyMarker' /\ ~scaffolded' /\ timestamp' = NoFile)]_vars

\* C12: no replica executes destroy_instance while another replica is
\* inside initialise_instance holding 'initlead'.  (No lock key has expired.)
C12_DestroyExcludesInit ==
    ~ttlElapsed =>
        \A r \in Replicas, q \in Replicas :
            ~(r # q /\ pc[r] \in DestroyPcs /\ InSection(q, "initlead"))

\* The replica makes an `odoo --update` run in this step.
UpgradeRun(r) ==
    /\ pc[r] = "upg_pass"
    /\ pc'[r] \in {"upg_pass", "upg_post"}
    /\ loc'[r].calls # loc[r].calls

\* C13 (as stated): once the revision marker equals the declared target no
\* replica makes an Executor run for an upgrade.  (No lock key has expired.)
C13_NoUpgradeAfterRefresh ==
    [][\A r \in Replicas :
          ~(~ttlElapsed /\ timestamp = env.target /\ UpgradeRun(r))]_vars

\* C13 (amended): the revision marker, once at the declared target, stays
\* there; a replica that acquires 'upgradelead' afterwards finds
\* update_needed false in its re-check under the lock and goes to a fast
\* exit, the passes being entered only through that re-check; the fast exit
\* calls release_lock once when the lock is held and returns into main().
C13_LateAcquirerSkips ==
    [][\A r \in Replicas :
          /\ timestamp = env.target => timestamp' = env.target
          /\ (/\ pc[r] = "upg_needed"
              /\ timestamp = env.target
              /\ pc'[r] # "upg_needed"
              /\ ~BySignal(exitCode'[r]))
                => (pc'[r] = "upg_release" /\ loc'[r].path \in {"flag", "current"})
          /\ pc'[r] = "upg_collect" => pc[r] \in {"upg_needed", "upg_collect"}
          /\ pc'[r] = "upg_pass" => pc[r] \in {"upg_collect", "upg_pass"}
          /\ (/\ pc[r] = "upg_release"
              /\ pc'[r] # "upg_release"
              /\ ~BySignal(exitCode'[r]))
                => /\ pc'[r] = "housekeeping"
                   /\ loc[r].calls = NoLocals.calls \/ loc[r].path = "passes"
                   /\ releases'[r]["upgradelead"] =
                        releases[r]["upgradelead"] + (IF loc[r].held THEN 1 ELSE 0)]_vars

\* One replica has upgraded and released 'upgradelead'; the other one, which
\* acquired the lock afterwards, has found the marker at the target and is
\* about to release.
C13_LateAcquirerAtRelease ==
    /\ releases["r1"]["upgradelead"] = 1
    /\ timestamp = env.target
    /\ pc["r2"] = "upg_release"
    /\ loc["r2"].held
    /\ loc["r2"].path = "current"
    /\ ~ttlElapsed

\* The replica returns from initialise_instance through the release at the
\* end of the function, holding 'initlead', the install passes having
\* succeeded in attempt `a` and no guarded marker write having met an error.
InitCompletes(r, a) ==
    /\ pc[r] = "init_release"
    /\ pc'[r] # "init_release"
    /\ ~BySignal(exitCode'[r])
    /\ loc[r].held
    /\ loc[r].attempt = a
    /\ ~loc[r].werr

\* What the success scenario leaves behind: the scaffold marker present, the
\* revision marker at the declared target when one is declared, release_lock
\* called once for 'initlead', the replica back in main().
InitSuccessState(r) ==
    /\ pc'[r] = "upgrade_check"
    /\ scaffolded'
    /\ env.target # "" => timestamp' = env.target
    /\ releases'[r]["initlead"] = 1

\* C14: scaffold marker absent, init lock acquired, every install pass
\* succeeding on the first attempt, marker writes succeeding: when
\* initialise_instance returns the scaffold marker is present, the revision
\* marker equals the declared target and the init lock has been released.
C14_InitSuccess ==
    [][\A r \in Replicas : InitCompletes(r, 1) => InitSuccessState(r)]_vars

\* The passes have succeeded on the first attempt and both markers are
\* written; the replica is about to release 'initlead'.
C14_FirstAttemptDone ==
    /\ pc["r1"] = "init_release"
    /\ loc["r1"].held
    /\ loc["r1"].attempt = 1
    /\ ~loc["r1"].werr
    /\ installed["r1"]
    /\ scaffolded
    /\ timestamp = NewRevision

\* C15: when the first install attempt fails and the second succeeds,
\* destroy_instance is called exactly once by the retry loop, from a failed
\* pass of the first attempt; it hands over to the first tier, the second
\* tier and the marker writes following in order; and the call ends in the
\* state of the success scenario.
C15_RetryAfterDestroy ==
    [][\A r \in Replicas :
          /\ InitCompletes(r, 2) => (InitSuccessState(r) /\ loc[r].destroys = 1)
          /\ (pc[r] \in {"init_core", "init_extra"} /\ pc'[r] = "destroy_db")
                => /\ loc[r].attempt = 1
                   /\ loc'[r].attempt = 2
                   /\ loc'[r].destroyRet = "init_core"
          /\ (/\ pc[r] = "destroy_unlink_scaffolded"
              /\ loc[r].destroyRet = "init_core"
              /\ pc'[r] # pc[r]
              /\ ~BySignal(exitCode'[r]))
                => (pc'[r] = "init_core" /\ loc'[r].destroys = 1)
          /\ (pc'[r] = "init_extra" /\ pc[r] # "init_extra") => pc[r] = "init_core"
          /\ (pc'[r] = "init_touch" /\ pc[r] # "init_touch") => pc[r] = "init_extra"]_vars

\* The first attempt failed, destroy_instance has run once, the passes of
\* the second attempt have succeeded and both markers are written.
C15_SecondAttemptDone ==
    /\ pc["r1"] = "init_release"
    /\ loc["r1"].held
    /\ loc["r1"].attempt = 2
    /\ loc["r1"].destroys = 1
    /\ ~loc["r1"].werr
    /\ scaffolded
    /\ timestamp = NewRevision

\* C16: initialise_instance makes at most two install attempts and its
\* retry loop calls destroy_instance at most once; a failed pass of the
\* second attempt is followed by no destroy_instance and no third attempt:
\* the process exits with status 1, the scaffold marker and the revision
\* marker unchanged, and an exited process does nothing more.
C16_SecondFailureFatal ==
    [][\A r \in Replicas :
          /\ loc'[r].attempt <= 2
          /\ loc'[r].destroys <= 1
          /\ (/\ pc[r] \in {"init_core", "init_extra"}
              /\ loc[r].attempt = 2
              /\ pc'[r] # pc[r])
                => /\ pc'[r] \in {"init_extra", "init_touch", "exited"}
                   /\ (pc'[r] = "exited" /\ ~BySignal(exitCode'[r]))
                         => /\ exitCode'[r] = 1
                            /\ scaffolded' = scaffolded
                            /\ timestamp' = timestamp
          /\ pc[r] = "exited" => (pc'[r] = "exited" /\ exitCode'[r] = exitCode[r])]_vars

\* The first attempt has failed and destroy_instance has run: the replica is
\* in a pass of the second attempt with the Executor present.
C16_InSecondAttempt ==
    /\ pc["r1"] = "init_extra"
    /\ loc["r1"].attempt = 2
    /\ loc["r1"].destroys = 1
    /\ installed["r1"]
    /\ env.binary /\ env.extra
    /\ ~scaffolded

\* The step is taken by `r`, is no stuttering of its position and is not
\* the end of the process by a signal.
Leaves(r, l) ==
    /\ pc[r] = l
    /\ pc'[r] # l
    /\ ~BySignal(exitCode'[r])

C18_TotalFailure ==
    [][\A r \in Replicas :
          /\ Leaves(r, "upg_post") =>
                /\ pc'[r] = "exited" <=>
                      /\ env.catalog # {}
                      /\ \A m \in env.catalog :
                            /\ m \notin loc[r].succeeded
                            /\ loc[r].calls[m] = UpgradePasses
                /\ pc'[r] = "exited" => (exitCode'[r] = 1 /\ timestamp' = timestamp)
          /\ pc[r] \in {"upg_acquire", "upg_needed", "upg_collect", "upg_pass",
                        "upg_post"}
                => timestamp' = timestamp]_vars

\* Every module of {m1, m2} has failed in all three passes: the call is
\* about to raise, the marker still at the previous revision.
C18_AllFailed ==
    /\ pc["r1"] = "upg_post"
    /\ env.catalog = {"m1", "m2"}
    /\ loc["r1"].remaining = {"m1", "m2"}
    /\ loc["r1"].succeeded = {}
    /\ loc["r1"].calls["m1"] = 3
    /\ loc["r1"].calls["m2"] = 3
    /\ timestamp = OldRevision

\* C19: a call of upgrade_modules returning through a fast exit (flag set,
\* update_needed false, empty module list) has made no Executor run and
\* calls release_lock exactly once when it holds 'upgradelead'; the revision
\* marker is untouched on the first two paths and at the declared target on
\* the empty-list path.
C19_FastExits ==
    [][\A r \in Replicas :
          /\ (pc[r] = "upg_needed" /\ pc'[r] = "upg_release") =>
                /\ loc'[r].path = "flag" <=> env.noUpgrade
                /\ loc'[r].path = "current" <=>
                      (~env.noUpgrade /\ ~update_needed(env, timestamp))
          /\ (pc[r] = "upg_collect" /\ pc'[r] \in {"upg_empty_ts", "upg_release"})
                => (env.catalog = {} /\ loc'[r].path = "empty")
          /\ (loc[r].path \in {"flag", "current"} \/ pc[r] \in {"upg_acquire", "upg_needed"})
                => timestamp' = timestamp
          /\ (Leaves(r, "upg_release") /\ loc[r].path \in {"flag", "current", "empty"})
                => /\ pc'[r] = "housekeeping"
                   /\ loc[r].calls = NoLocals.calls
                   /\ releases'[r]["upgradelead"] = (IF loc[r].held THEN 1 ELSE 0)
                   /\ timestamp' = timestamp
                   /\ loc[r].path = "empty" => timestamp = env.target]_vars

\* The module list is empty: the marker has been refreshed from the previous
\* revision to the target and the call, holding the lock, is about to
\* release and return.
C19_EmptyListDone ==
    /\ pc["r1"] = "upg_release"
    /\ loc["r1"].path = "empty"
    /\ loc["r1"].held
    /\ env.catalog = {}
    /\ timestamp = env.target
    /\ releases["r1"]["upgradelead"] = 0

\* C20: the scaffold marker goes from present to absent only by the unlink
\* of destroy_instance: every step that removes it is the step of a replica
\* at `Path("/etc/odoo/.scaffolded").unlink()`.
C20_ScaffoldOnlyRemovedByDestroy ==
    [][(scaffolded /\ ~scaffolded') =>
          \E r \in Replicas :
              /\ pc[r] = "destroy_unlink_scaffolded"
              /\ pc'[r] = loc[r].destroyRet]_vars

\* A replica has written the scaffold marker under a sentinel lock and is
\* leaving _file_lock, while the other one is inside destroy_instance, about
\* to unlink the marker.
C20_MarkerWrittenAndDestroyPending ==
    \E r \in Replicas, q \in Replicas :
        /\ r # q
        /\ scaffolded
        /\ pc[r] = "init_touch"
        /\ fl[r].pc = "exit"
        /\ fl[r].kind = "sentinel"
        /\ pc[q] = "destroy_unlink_scaffolded"

(***************************************************************************)
(* Properties of the boot sequence of main().                              *)
(***************************************************************************)

\* The phase of main() a replica is in: 1 Destroy (check and call),
\* 2 Initialize (check and call, with the destroy_instance calls made by
\* initialise_instance), 3 Upgrade (check and call), 4 housekeeping,
\* 5 handed off to the application, 6 ended.
PhaseOf(r) ==
    CASE pc[r] \in {"start", "wait_redis", "wait_db"} -> 0
      [] pc[r] = "destroy_check" -> 1
      [] pc[r] \in DestroyPcs /\ loc[r].destroyRet = "init_check" -> 1
      [] pc[r] = "init_check" \/ InInit(r) -> 2
      [] pc[r] = "upgrade_check" \/ InUpgrade(r) -> 3
      [] pc[r] = "housekeeping" -> 4
      [] pc[r] = "ready" -> 5
      [] OTHER -> 6

\* C21: in every boot the phases follow each other in the order Destroy,
\* Initialize, Upgrade, housekeeping / Ready; destroy_instance is entered
\* from main() only with the destroy marker present, initialise_instance
\* only with the scaffold marker absent when it is checked, and a boot that
\* has run destroy_instance from main() goes on to run initialise_instance.
C21_PhaseOrder ==
    [][\A r \in Replicas :
          /\ PhaseOf(r)' >= PhaseOf(r)
          /\ (pc[r] = "destroy_check" /\ pc'[r] \in DestroyPcs) => destroyMarker
          /\ (pc[r] = "init_check" /\ pc'[r] \in InitPcs) => ~scaffolded
          /\ (Leaves(r, "init_check") /\ loc[r].wiped)
                => pc'[r] = "init_acquire"]_vars

(***************************************************************************)
(* Properties of _file_lock.                                               *)
(***************************************************************************)

\* The step is the end of the with-block of _file_lock run by `p`: the code
\* after the yield has run and the function has returned or re-raised.
FlExits(p) ==
    /\ fl[p].pc = "exit"
    /\ fl'[p].pc = "idle"
    /\ ~BySignal(exitCode'[p])

\* C22: where flock fails with ENOTSUP / EOPNOTSUPP and no other process
\* contends, the lock path is free whenever the process is about to make an
\* exclusive create (so the first attempt succeeds), the body runs holding
\* the sentinel, and at the exit of _file_lock, the body having returned or
\* raised, the body has run exactly once and no file is left at the lock
\* path.
C22_UnsupportedUncontended ==
    [][\A p \in Replicas :
          fsMode = "enotsup" =>
             /\ fl'[p].pc = "create" => ~lockFile'[FlTarget(p)]
             /\ fl'[p].pc \in {"body", "helper", "exit"} =>
                   (fl'[p].kind = "sentinel" /\ lockFile'[FlTarget(p)])
             /\ fl'[p].bodies <= 1
             /\ FlExits(p) => (fl[p].bodies = 1 /\ ~lockFile'[FlTarget(p)])]_vars

\* The body has run under the sentinel, on a lock path that held a file left
\* by an earlier boot or not; the clean-up is about to remove the sentinel.
C22_BodyDoneUnderSentinel ==
    /\ fsMode = "enotsup"
    /\ fl["r1"].pc = "exit"
    /\ fl["r1"].kind = "sentinel"
    /\ fl["r1"].bodies = 1
    /\ lockFile[FlTarget("r1")]

\* C23: where flock fails with an errno that is neither ENOTSUP / EOPNOTSUPP
\* nor EBADF / EINVAL, _file_lock re-raises the error: the body never runs,
\* no marker is written and the error, caught by no caller, ends the boot
\* with status 1.
C23_UnexpectedErrorPropagates ==
    [][\A p \in Replicas :
          fsMode = "eother" =>
             /\ fl'[p].pc \notin {"body", "helper", "exit"}
             /\ fl'[p].bodies = 0
             /\ UNCHANGED markerVars
             /\ (fl[p].pc = "flock" /\ fl'[p] # fl[p] /\ ~BySignal(exitCode'[p]))
                   => (pc'[p] = "exited" /\ exitCode'[p] = 1)]_vars

\* A process has ended with the re-raised error while the other one is about
\* to make the same flock call.
C23_ErrorReraised ==
    /\ fsMode = "eother"
    /\ pc["r1"] = "exited"
    /\ exitCode["r1"] = 1
    /\ lockFile["scaffold"] \/ lockFile["conf"]
    /\ fl["r2"].pc = "flock"

\* C24: on the EBADF / EINVAL path _file_lock makes at most max_retries
\* exclusive creates and sleeps after each failed one but the last; when all
\* have failed it runs the body once, holding no lock, and its exit removes
\* no file and releases nothing.
C24_BoundedFallback ==
    [][\A p \in Replicas :
          /\ fl'[p].attempts <= MaxCreateRetries
          /\ fl'[p].pc = "create_bounded" =>
                (fl'[p].sleeps = fl'[p].attempts /\ fl'[p].attempts < MaxCreateRetries)
          /\ (fsMode = "ebadf" /\ fl'[p].kind = "nolock") =>
                /\ fl'[p].attempts = MaxCreateRetries
                /\ fl'[p].sleeps = MaxCreateRetries - 1
                /\ fl'[p].bodies <= 1
          /\ (fsMode = "ebadf" /\ fl[p].kind = "nolock" /\ FlExits(p)) =>
                /\ fl[p].bodies = 1
                /\ UNCHANGED flShared]_vars

\* Every exclusive create has failed: the body has run without lock and the
\* call is about to return, the file at the lock path still there.
C24_BudgetExhausted ==
    /\ fsMode = "ebadf"
    /\ fl["r1"].pc = "exit"
    /\ fl["r1"].kind = "nolock"
    /\ fl["r1"].attempts = MaxCreateRetries
    /\ fl["r1"].sleeps = MaxCreateRetries - 1
    /\ fl["r1"].bodies = 1
    /\ lockFile[FlTarget("r1")]

\* C25: where flock fails with EBADF / EINVAL and no other process holds or
\* contends for the lock, _file_lock acquires the sentinel before its retry
\* budget is used up, runs the body once while holding it and leaves no file
\* at the lock path.
C25_BadDescriptorUncontended ==
    [][\A p \in Replicas :
          (fsMode = "ebadf" /\ FlExits(p)) =>
             /\ fl[p].kind = "sentinel"
             /\ fl[p].attempts <= MaxCreateRetries
             /\ fl[p].bodies = 1
             /\ ~lockFile'[FlTarget(p)]]_vars

\* C26: the exit of _file_lock releases what the call acquired: an advisory
\* lock is dropped and no file removed, a sentinel is removed, a call that
\* proceeded without lock changes nothing; and a lock file is never removed
\* while another process holds it as its sentinel.
C26_ReleaseMatchesAcquire ==
    [][\A p \in Replicas :
          /\ FlExits(p) =>
                /\ fl[p].kind = "flock" =>
                      /\ flockOwner[FlTarget(p)] = p
                      /\ flockOwner'[FlTarget(p)] = NoOne
                      /\ UNCHANGED lockFile
                /\ fl[p].kind = "sentinel" =>
                      /\ ~lockFile'[FlTarget(p)]
                      /\ UNCHANGED flockOwner
                /\ fl[p].kind \in {"nolock", "tmpflock"} => UNCHANGED flShared
          /\ \A t \in Paths :
                (/\ fl[p].kind = "sentinel"
                 /\ fl[p].pc \in {"body", "helper", "exit"}
                 /\ FlTarget(p) = t
                 /\ lockFile[t]
                 /\ ~lockFile'[t])
                   => fl'[p] # fl[p]]_vars

\* C27: a process on a creation-based path of _file_lock does not stay in
\* its create loop forever.
C27_CreateLoopEnds ==
    \A p \in Replicas :
        (fl[p].pc \in {"create", "create_bounded"})
            ~> (fl[p].pc \notin {"create", "create_bounded"})

(***************************************************************************)
(* Properties of wait_for_lock.                                            *)
(***************************************************************************)

WaitPcs == {"init_wait", "upg_wait"}

\* The key a waiting replica polls.
WaitedKey(r) == key[IF pc[r] = "init_wait" THEN "initlead" ELSE "upgradelead"]

Surviving ==
    {discovered.scan[i].name :
        i \in {k \in 1..Len(discovered.scan) :
                  /\ discovered.scan[k].kind = "dict"
                  /\ discovered.scan[k].name \notin discovered.blocked
                  /\ filter_localisation(discovered.scan[k].name,
                                         allowed_cc(discovered.languages))}}

\* The manifest that stands for a surviving name: the first one found.
ManifestOf(n) ==
    discovered.scan[CHOOSE i \in 1..Len(discovered.scan) :
                       /\ discovered.scan[i].name = n
                       /\ discovered.scan[i].kind = "dict"
                       /\ \A j \in 1..(i - 1) :
                             discovered.scan[j].kind = "dict"
                                 => discovered.scan[j].name # n]

\* n depends on d, and d is present in the surviving set.
DependsOn(n, d) ==
    /\ d \in Surviving
    /\ \E i \in 1..Len(ManifestOf(n).depends) : ManifestOf(n).depends[i] = d

\* The names reached from S along at most k present dependencies (k >= 1).
RECURSIVE Reached(_, _)

Reached(S, k) ==
    LET next == {d \in Surviving : \E n \in S : DependsOn(n, d)} IN
    IF k = 1 THEN next ELSE next \cup Reached(next, k - 1)

OnCycle(n) == n \in Reached({n}, Cardinality(AddonNames))

Cyclic == \E n \in Surviving : OnCycle(n)

\* C29: for a surviving set without dependency cycle collect_addons returns
\* a list that holds every surviving name exactly once and every add-on
\* after all of its present dependencies; a dependency that was not found
\* or was filtered out constrains nothing, and an empty or fully filtered
\* scan gives the empty list.
C29_DependencyOrder ==
    (ordered.ran /\ ~Cyclic) =>
        /\ ~ordered.raised
        /\ {ordered.out[i] : i \in 1..Len(ordered.out)} = Surviving
        /\ Len(ordered.out) = Cardinality(Surviving)
        /\ \A i \in 1..Len(ordered.out), j \in 1..Len(ordered.out) :
              DependsOn(ordered.out[i], ordered.out[j]) => j < i

\* Two add-ons found in the order opposite to the one returned, the
\* dependent one also depending on an add-on that the filters rejected.
C29_ReorderedPastFiltered ==
    /\ ordered.ran
    /\ Len(ordered.out) = 2
    /\ discovered.blocked = {"c"}
    /\ Len(discovered.scan) = 3
    /\ discovered.scan[1].name = ordered.out[2]
    /\ discovered.scan[2].name = "c"
    /\ DependsOn(ordered.out[2], ordered.out[1])
    /\ \E i \in 1..Len(discovered.scan[1].depends) :
          discovered.scan[1].depends[i] = "c"

\* C30: for a surviving set whose present dependencies contain a cycle, a
\* self-dependency included, collect_addons raises the cycle error and
\* returns no list, wherever the cycle lies in the scan.
C30_CycleRaises ==
    (ordered.ran /\ Cyclic) => (ordered.raised /\ ordered.out = <<>>)

\* The call has raised on a cycle that the first add-on of the scan is not
\* part of and does not depend on.
C30_CycleAwayFromFirst ==
    /\ ordered.ran
    /\ ordered.raised
    /\ Len(discovered.scan) = 3
    /\ discovered.scan[1].name \in Surviving
    /\ discovered.scan[1].depends = <<>>
    /\ \E n \in Surviving : OnCycle(n) /\ ~DependsOn(n, n)

\* The add-ons found without the later occurrences of a name already found.
RECURSIVE FirstOccurrences(_)

FirstOccurrences(sc) ==
    IF sc = <<>> THEN <<>>
    ELSE LET front == SubSeq(sc, 1, Len(sc) - 1)
             last == sc[Len(sc)] IN
         IF \E j \in 1..Len(front) : front[j].name = last.name
         THEN FirstOccurrences(front)
         ELSE Append(FirstOccurrences(front), last)

\* C31: a name found under two scan roots is returned exactly once, the
\* dependency list of its first occurrence decides the ordering, and the
\* result is the one of the same scan without the later occurrences.
C31_FirstOccurrenceWins ==
    ordered.ran =>
        /\ \A i \in 1..Len(ordered.out), j \in 1..Len(ordered.out) :
              ordered.out[i] = ordered.out[j] => i = j
        /\ \A i \in 1..Len(ordered.out), j \in 1..Len(ordered.out) :
              DependsOn(ordered.out[i], ordered.out[j]) => j < i
        /\ ordered = collect_addons(FirstOccurrences(discovered.scan),
                                    discovered.languages, discovered.blocked)

\* An add-on found twice, first without dependency and then depending on
\* the add-on found in between, is returned once and ahead of that add-on.
C31_SecondOccurrenceIgnored ==
    /\ ordered.ran
    /\ Len(discovered.scan) = 3
    /\ discovered.scan[1].name = discovered.scan[3].name
    /\ discovered.scan[1].depends = <<>>
    /\ discovered.scan[2].depends = <<>>
    /\ discovered.scan[3].depends = <<discovered.scan[2].name>>
    /\ ordered.out = <<discovered.scan[1].name, discovered.scan[2].name>>

\* The add-ons found without those whose name the blocklist matches.
NeverDiscovered(sc, bl) == SelectSeq(sc, LAMBDA m : m.name \notin bl)

\* C33: no blocked name is in the result, whether it is found again under a
\* later root or named as a dependency by a kept add-on, and the result is
\* the one of the same scan without the blocked add-ons.
C33_BlockedDropped ==
    ordered.ran =>
        /\ \A i \in 1..Len(ordered.out) :
              ordered.out[i] \notin discovered.blocked
        /\ ordered = collect_addons(NeverDiscovered(discovered.scan,
                                                    discovered.blocked),
                                    discovered.languages, discovered.blocked)

\* A blocked add-on found under two roots, with a kept add-on that depends
\* on it found in between.
C33_BlockedTwiceAndDependedOn ==
    /\ ordered.ran
    /\ discovered.blocked = {"c"}
    /\ Len(discovered.scan) = 3
    /\ discovered.scan[1].name = "c"
    /\ discovered.scan[3].name = "c"
    /\ discovered.scan[2].depends = <<"c">>
    /\ ordered.out = <<discovered.scan[2].name>>

\* The names that the manifests read as add-ons carry and the blocklist
\* does not match.
Candidates ==
    {discovered.scan[i].name :
        i \in {k \in 1..Len(discovered.scan) :
                  /\ discovered.scan[k].kind = "dict"
                  /\ discovered.scan[k].name \notin discovered.blocked}}

\* C32: in the list returned, a locale-named add-on is present exactly when
\* its country is allowed, if a locale filter is supplied; an add-on that
\* is not locale-named is present; and without a locale filter
\* (languages is None) a locale-named add-on is present.
C32_LocaleFilter ==
    (ordered.ran /\ ~ordered.raised) =>
        \A n \in Candidates :
            LET listed == \E i \in 1..Len(ordered.out) : ordered.out[i] = n IN
            /\ (L10N_RE(n) = NoMatch) => listed
            /\ (L10N_RE(n) # NoMatch /\ discovered.languages.given)
                  => (listed <=> Lower(L10N_RE(n))
                                    \in allowed_cc(discovered.languages))
            /\ (L10N_RE(n) # NoMatch /\ ~discovered.languages.given) => listed

\* C34: a manifest that cannot be read or parsed, or that parses to
\* something other than a dict with a dependency list, does not make the
\* call fail: the result is the one of the scan without that manifest.
C34_MalformedSkipped ==
    ordered.ran =>
        /\ ordered.error \notin {"AttributeError", "TypeError"}
        /\ ordered = collect_addons(SelectSeq(discovered.scan,
                                              LAMBDA m : m.kind = "dict"),
                                    discovered.languages, discovered.blocked)

(***************************************************************************)
(* Properties of the Executor invocations of initialise_instance.          *)
(***************************************************************************)

\* The install path of initialise_instance writes the scaffold marker.
InstallWritesScaffold(r) ==
    /\ pc[r] = "init_touch"
    /\ ~scaffolded
    /\ scaffolded'

\* The tier has been installed in the current attempt: its list is empty,
\* or its Executor invocation returned exit status 0, or -- in development
\* mode only -- the binary is missing and the run was simulated.
TierDone(r, nonEmpty, tier) ==
    \/ ~nonEmpty
    \/ tier \in loc[r].tiersOk
    \/ ~env.binary /\ env.pytest

\* C35: the install path writes the scaffold marker only after the Executor
\* invocation of every non-empty tier of the same call returned exit status
\* 0, a missing binary counting as a success in development mode only.
C35_MarkerAfterExecutorSuccess ==
    [][\A r \in Replicas :
          InstallWritesScaffold(r)
              => TierDone(r, env.core, "core") /\ TierDone(r, env.extra, "extra")]_vars

\* _run_odoo makes a real Executor invocation for the tier at its position.
Invokes(r, l) ==
    /\ pc[r] = l
    /\ IF l = "init_core" THEN env.core ELSE env.extra
    /\ env.binary
    /\ pc'[r] # pc[r]
    /\ ~BySignal(exitCode'[r])

\* C36: within an install attempt the invocation of the extra tier starts
\* only after the invocation of a non-empty core tier returned
\* successfully in that attempt; a failed core tier is followed by no
\* invocation of the extra tier in its attempt; and the retry after
\* destroy_instance starts with the core tier, no tier done.
C36_CoreBeforeExtra ==
    [][\A r \in Replicas :
          /\ Invokes(r, "init_extra") => (env.core => "core" \in loc[r].tiersOk)
          /\ (pc'[r] = "init_extra" /\ pc[r] # "init_extra")
                => /\ pc[r] = "init_core"
                   /\ loc'[r].attempt = loc[r].attempt
                   /\ Invokes(r, "init_core") => "core" \in loc'[r].tiersOk
          /\ (Invokes(r, "init_core") /\ "core" \notin loc'[r].tiersOk)
                => pc'[r] \in {"destroy_db", "exited"}
          /\ (/\ pc[r] = "destroy_unlink_scaffolded"
              /\ loc[r].destroyRet \in {"init_core", "init_extra"}
              /\ pc'[r] # pc[r]
              /\ ~BySignal(exitCode'[r]))
                => (pc'[r] = "init_core" /\ loc'[r].tiersOk = {})]_vars

\* The second attempt, after a failure of the extra tier in the first one,
\* has installed the core tier again and is about to invoke the extra tier.
C36_RetryReachedExtra ==
    /\ pc["r1"] = "init_extra"
    /\ loc["r1"].attempt = 2
    /\ loc["r1"].destroys = 1
    /\ loc["r1"].tiersOk = {"core"}
    /\ env.core /\ env.extra /\ env.binary

(***************************************************************************)
(* Properties of the housekeeping and of odoo-config.                      *)
(***************************************************************************)

\* C37: runtime_housekeeping always terminates: no odoo-config helper that
\* it starts under the file lock of odoo.conf waits for a flock on
\* odoo.conf.lock that its parent holds.
C37_HousekeepingTerminates ==
    \A r \in Replicas :
        (pc[r] = "housekeeping") ~> (pc[r] # "housekeeping")

\* C38: two odoo-config processes have each set a different key; after
\* both are through the file holds both new values.
C38_NoLostUpdate ==
    \A p \in Replicas, q \in Replicas :
        (/\ config.proc[p].pc = "done"
         /\ config.proc[q].pc = "done"
         /\ config.proc[p].key # config.proc[q].key)
            => /\ config.file[config.proc[p].key] = config.proc[p].value
               /\ config.file[config.proc[q].key] = config.proc[q].value

(***************************************************************************)
(* Properties of release_lock and of wait_for_dependencies.                *)
(***************************************************************************)

\* C39: a release_lock call of a replica deletes only a key that this
\* replica created; the key that another replica acquired after the
\* caller's key expired survives the call.
C39_ReleaseOnlyOwnKey ==
    [][\A r \in Replicas, n \in LockNames :
          (/\ releases'[r][n] = releases[r][n] + 1
           /\ key[n].present
           /\ ~key'[n].present)
              => key[n].owner = r]_vars

\* C40: when wait_for_dependencies returns into main() with its helper
\* modules importable, the wait for the cache service and after it the wait
\* for the database have both returned during the call, whatever the
\* environment; the check of the destroy marker -- and with it the Destroy,
\* Initialize and Upgrade phases -- is reached in no other way.
C40_DependenciesAwaited ==
    [][\A r \in Replicas :
          /\ (pc'[r] = "destroy_check" /\ pc[r] # "destroy_check")
                => ("skipped" \notin loc'[r].waits
                       => loc'[r].waits = {"redis", "db"})
          /\ (pc'[r] = "wait_db" /\ pc[r] # "wait_db")
                => (pc[r] = "wait_redis" /\ "db" \notin loc'[r].waits)]_vars

====
